---- MODULE Spec2Model ----
(***************************************************************************)
(* OmniMailbox: one SPSC channel (detail::SPSCQueue) with its              *)
(* ProducerHandle and ConsumerHandle.  The producer thread and the         *)
(* consumer thread each run one API call at a time; a call is cut into     *)
(* steps at its accesses to the shared queue (atomic loads and stores,     *)
(* buffer reads and writes, notify/wait), so that TLC interleaves the two  *)
(* threads exactly where the hardware can.  Accesses are sequentially      *)
(* consistent in the model.                                                *)
(***************************************************************************)
EXTENDS Integers, Sequences, FiniteSets, TLC

\* ------------------------------------------------------------------------
\* Geometry and bounds
\* ------------------------------------------------------------------------

\* log2 of the ring's capacity.
CapacityBits == 1

\* SPSCQueue::capacity, a power of two (asserted by the constructor).
capacity == 2 ^ CapacityBits

\* SPSCQueue::max_message_size, scaled down: payload regions hold this many bytes.
max_message_size == 2

\* Longest batch handed to BatchPush / largest max_count handed to BatchPop.
MaxBatch == 2

\* Number of distinct messages (stamps) the producer creates.
MaxMessages == 3

\* Caps of the failure counters failed_pushes_ and statistics.failed_pops: a
\* call that may count a failure starts only below the cap.
MaxFailedPushes == 1
MaxFailedPops == 1

\* std::nullopt of Impl::reserved_slot_
nullopt == -1

\* Configurations handed to RequestChannel: every capacity up to
\* MaxSmallCapacity and the neighbours of every power of two up to
\* 2^MaxProbeBits (beyond both clamps).
MaxSmallCapacity == 20
MaxProbeBits == 21

\* Number of SPSCQueue objects the broker creates in a run (the first one is
\* the queue of channel "a"), and number of threads that call the broker.
MaxQueues == 2
NumBrokerThreads == 2

\* ------------------------------------------------------------------------
\* queue_helpers.hpp
\* ------------------------------------------------------------------------

RECURSIVE BitAnd(_, _)
BitAnd(a, b) ==
    IF a = 0 \/ b = 0 THEN 0
    ELSE (a % 2) * (b % 2) + 2 * BitAnd(a \div 2, b \div 2)

IsValidMessageSize(size, max) == size > 0 /\ size <= max

IsQueueFull(write, read, cap) ==
    BitAnd(write + 1, cap - 1) = BitAnd(read, cap - 1)

IsQueueEmpty(read, write, cap) ==
    BitAnd(read, cap - 1) = BitAnd(write, cap - 1)

GetSlotIndex(index, cap) == BitAnd(index, cap - 1)

\* static_cast<uint32_t>(size) stored in the first four bytes of the slot; every
\* size that reaches this point passed IsValidMessageSize, so the cast keeps it.
WriteSizePrefix(buf, slot, size) ==
    [buf EXCEPT ![slot].size = size]

ReadSizePrefix(buf, slot) == buf[slot].size

\* std::memcpy(GetPayloadPointer(slot), data, data.size())
CopyPayload(buf, slot, data) ==
    [buf EXCEPT ![slot].payload =
        [i \in 1..max_message_size |->
            IF i <= Len(data) THEN data[i] ELSE buf[slot].payload[i]]]

\* The bytes a span (payload pointer of slot, size) shows when it is read.
ViewContent(buf, view) ==
    [i \in 1..view.size |->
        IF i <= max_message_size THEN buf[view.slot].payload[i] ELSE 0]

Slots == 0..(capacity - 1)

\* The first n bytes of a byte sequence (all of it when it is shorter).
FirstBytes(bytes, n) ==
    [i \in 1..(IF n < Len(bytes) THEN n ELSE Len(bytes)) |-> bytes[i]]

\* A message of n bytes, each byte the message's stamp.
Stamped(id, n) == [i \in 1..n |-> id]

\* The length of the message with stamp id: the test messages cycle through
\* the valid lengths.
MsgSize(id) == 1 + (id % max_message_size)

\* ------------------------------------------------------------------------
\* config.hpp: ChannelConfig
\* ------------------------------------------------------------------------

\* The limits Normalize clamps to and IsValid tests against.
CapacityMin == 8
CapacityMax == 524288
MessageSizeMin == 64
MessageSizeMax == 1048576

\* The default member initializers of ChannelConfig.
DefaultCapacity == 1024
DefaultMaxMessageSize == 4096

\* a | b.  size_t has 64 bits; the values the model feeds RoundUpPowerOf2
\* stay below 2^31, so its value++ never wraps here.
RECURSIVE BitOr(_, _)
BitOr(a, b) ==
    IF a = 0 THEN b
    ELSE IF b = 0 THEN a
    ELSE (IF a % 2 = 1 \/ b % 2 = 1 THEN 1 ELSE 0) + 2 * BitOr(a \div 2, b \div 2)

\* value >> k
RECURSIVE ShiftRight(_, _)
ShiftRight(value, k) ==
    IF k = 0 \/ value = 0 THEN value ELSE ShiftRight(value \div 2, k - 1)

\* One line "value |= value >> k" of RoundUpPowerOf2.
Smear(value, k) == BitOr(value, ShiftRight(value, k))

\* ChannelConfig::RoundUpPowerOf2
RoundUpPowerOf2(value) ==
    IF value = 0 THEN 1
    ELSE Smear(Smear(Smear(Smear(Smear(Smear(value - 1, 1), 2), 4), 8), 16), 32) + 1

\* std::clamp(v, lo, hi)
Clamp(v, lo, hi) == IF v < lo THEN lo ELSE IF hi < v THEN hi ELSE v

\* (capacity & (capacity - 1)) != 0
NotPowerOf2(c) == BitAnd(c, c - 1) # 0

\* Normalize without the rounding (lines 49-51).
NormalizeNoRound(config) ==
    [capacity |-> Clamp(config.capacity, CapacityMin, CapacityMax),
     max_message_size |-> Clamp(config.max_message_size, MessageSizeMin, MessageSizeMax)]

\* Normalize rounding up to the power of two above the clamped capacity,
\* also when that capacity is a power of two already.
NormalizeAlwaysUp(config) ==
    [capacity |-> RoundUpPowerOf2(Clamp(config.capacity, CapacityMin, CapacityMax) + 1),
     max_message_size |-> Clamp(config.max_message_size, MessageSizeMin, MessageSizeMax)]

\* ChannelConfig::Normalize: clamp both fields, then round the capacity up.
Normalize(config) ==
    LET clamped == Clamp(config.capacity, CapacityMin, CapacityMax)
    IN  [capacity |-> IF NotPowerOf2(clamped) THEN RoundUpPowerOf2(clamped) ELSE clamped,
         max_message_size |-> Clamp(config.max_message_size, MessageSizeMin, MessageSizeMax)]

\* ChannelConfig::IsValid
IsValid(config) ==
    IF config.capacity < CapacityMin \/ config.capacity > CapacityMax THEN FALSE
    ELSE IF NotPowerOf2(config.capacity) THEN FALSE
    ELSE IF config.max_message_size < MessageSizeMin \/
            config.max_message_size > MessageSizeMax THEN FALSE
    ELSE TRUE

DefaultConfig == [capacity |-> DefaultCapacity, max_message_size |-> DefaultMaxMessageSize]

\* ------------------------------------------------------------------------
\* State
\* ------------------------------------------------------------------------

VARIABLES
    \* detail::SPSCQueue
    write_index, read_index, producer_alive, consumer_alive, buffer,
    \* ProducerHandle::Impl
    reserved_slot_, messages_sent_, bytes_sent_, failed_pushes_,
    \* ConsumerHandle::Impl::statistics
    statistics,
    \* the producer thread: its position in the current call and the call's locals
    pl,
    \* the ReserveResult in the caller's hands: whether the object is alive, and
    \* the bytes the caller has written through it
    staged,
    \* stamp of the next message the producer creates
    next_id,
    \* the consumer thread: its position in the current call and the call's locals
    cl,
    \* the spans the consumer's caller holds from its last successful pop
    views,
    \* history: messages in the order they were published / returned by pops
    committed, popped,
    \* MailboxBroker::Impl: the registry (name -> queue), its counters and its
    \* shared_mutex
    channels_, total_created_, total_destroyed_, registry_mutex_,
    \* the SPSCQueue objects of the channels created later than the first, with
    \* their two handles
    queues,
    \* the threads that call the broker: position and locals of each
    bt,
    \* the handle objects a std::move has emptied (pimpl_ is null)
    moved

queue_vars == <<write_index, read_index, producer_alive, consumer_alive, buffer>>
producer_vars == <<reserved_slot_, messages_sent_, bytes_sent_, failed_pushes_, pl, staged, next_id>>
consumer_vars == <<statistics, cl, views, popped>>
broker_vars == <<channels_, total_created_, total_destroyed_, registry_mutex_>>
other_vars == <<broker_vars, queues, bt, moved>>
channel_vars == <<queue_vars, producer_vars, consumer_vars, committed>>
vars == <<channel_vars, other_vars>>

\* SPSCQueue constructor, then both Impl constructors (flags stored true).
InitQueue ==
    /\ write_index = 0
    /\ read_index = 0
    /\ producer_alive = TRUE
    /\ consumer_alive = TRUE
    /\ buffer = [s \in Slots |-> [size |-> 0, payload |-> [i \in 1..max_message_size |-> 0]]]

\* No ReserveResult in the caller's hands / one fresh from Reserve.
NoResult == [held |-> FALSE, bytes |-> <<>>]
FreshResult == [held |-> TRUE, bytes |-> <<>>]

ProducerIdle ==
    [pc |-> "idle", op |-> "none", data |-> <<>>, batch |-> <<>>, i |-> 0,
     pushed |-> 0, total |-> 0, write |-> 0, expired |-> FALSE,
     actual |-> 0, status |-> "none", count |-> 0,
     start_write |-> 0, start_read |-> 0, started_dead |-> FALSE,
     valid |-> TRUE, invalid_at |-> 0, obs |-> 0, notifies |-> 0,
     after_shutdown |-> FALSE, on_moved |-> FALSE]

InitProducer ==
    /\ reserved_slot_ = nullopt
    /\ messages_sent_ = 0
    /\ bytes_sent_ = 0
    /\ failed_pushes_ = 0
    /\ pl = ProducerIdle
    /\ staged = NoResult
    /\ next_id = 1

ConsumerIdle ==
    [pc |-> "idle", op |-> "none", ret |-> "top", timeout |-> "zero",
     expired |-> FALSE, producer_alive |-> TRUE, batch_alive |-> TRUE,
     read |-> 0, write |-> 0, size |-> 0, messages |-> <<>>, max_count |-> 0,
     status |-> "none", start_read |-> 0, started_dead |-> FALSE,
     notifies |-> 0, after_shutdown |-> FALSE, on_moved |-> FALSE]

InitConsumer ==
    /\ statistics = [messages_received |-> 0, bytes_received |-> 0, failed_pops |-> 0]
    /\ cl = ConsumerIdle
    /\ views = <<>>
    /\ popped = <<>>

\* Channel names the callers use.
Names == {"a", "b"}

\* Identity of the SPSCQueue objects: TheQueue is the queue of channel "a",
\* whose state the variables write_index .. buffer hold; the queues created
\* later are 2, 3, ...; NoQueue stands for "no entry" / "no channel pair".
NoQueue == 0
TheQueue == 1
LaterQueues == 2..MaxQueues
BrokerThreads == 1..NumBrokerThreads

\* A queue that has not been constructed yet.
Unborn ==
    [capacity |-> 0, max_message_size |-> 0,
     producer_alive |-> FALSE, consumer_alive |-> FALSE,
     producer_handle |-> FALSE, consumer_handle |-> FALSE]

\* std::shared_mutex: the thread that holds it exclusively (0: none) and the
\* threads that hold it shared.
Unlocked == [exclusive |-> 0, shared |-> {}]

\* Locals of a broker call; start_channels (the registry when Shutdown took
\* the lock) is history.
BrokerIdle ==
    [pc |-> "idle", op |-> "none", name |-> "", config |-> DefaultConfig,
     normalized |-> DefaultConfig, result |-> "none", pair |-> NoQueue,
     q |-> NoQueue, producer_alive |-> FALSE, todo |-> {},
     start_channels |-> [n \in Names |-> NoQueue]]

\* The broker after RequestChannel("a", ...) returned Success: one entry, one
\* queue created, both handles in their threads' hands.
InitBroker ==
    /\ channels_ = [n \in Names |-> IF n = "a" THEN TheQueue ELSE NoQueue]
    /\ total_created_ = 1
    /\ total_destroyed_ = 0
    /\ registry_mutex_ = Unlocked
    /\ queues = [q \in LaterQueues |-> Unborn]
    /\ bt = [t \in BrokerThreads |-> BrokerIdle]
    /\ moved = [producer |-> "none", consumer |-> "none"]

Init == InitQueue /\ InitProducer /\ InitConsumer /\ committed = <<>> /\ InitBroker

\* Shutdown has returned to a caller, who still has not gone on.
ShutdownReturned == \E t \in BrokerThreads : bt[t].pc = "returned" /\ bt[t].op = "Shutdown"

\* ------------------------------------------------------------------------
\* Producer thread (producer_handle.cpp)
\* ------------------------------------------------------------------------

\* Entry of a producer API call: what the call sees when it starts.  The
\* fields start_write, started_dead, valid (the size arguments are valid),
\* obs (write_index - read_index when a full check looked), notifies and,
\* for BatchPush, start_read and invalid_at (the place of the first invalid
\* message of the batch, 0 when there is none) are history, and so is
\* after_shutdown (the call started after a Shutdown had returned).
PBegin(f, op) ==
    [f EXCEPT !.op = op, !.status = "running", !.count = 0,
              !.start_write = write_index, !.start_read = 0,
              !.started_dead = (cl.pc = "dead"),
              !.valid = TRUE, !.invalid_at = 0, !.obs = -1, !.notifies = 0,
              !.after_shutdown = ShutdownReturned]

\* Return of a producer API call with its result; the call's locals die.
PReturn(f, status, count) ==
    [f EXCEPT !.pc = "returned", !.status = status, !.count = count,
              !.data = <<>>, !.batch = <<>>, !.i = 0, !.pushed = 0, !.total = 0,
              !.write = 0, !.expired = FALSE, !.actual = 0]

CanCall == pl.pc = "idle"

\* A call that may increment failed_pushes_.
CanPush == CanCall /\ failed_pushes_ < MaxFailedPushes

\* write_index.notify_one(): a consumer parked in write_index.wait() is woken
\* and compares the value again.
NotifyWriteIndex(c) == IF c.pc = "parked" THEN [c EXCEPT !.pc = "bpi_wait"] ELSE c

\* Reserve returned nullopt: back in the caller (Reserve itself, TryPush
\* lines 217-220, BlockingPush lines 186-191).
ReserveFail(f) ==
    /\ pl' = CASE f.op = "Reserve" -> PReturn(f, "nullopt", 0)
               [] f.op = "TryPush" -> PReturn(f, "QueueFull", 0)
               [] OTHER -> [f EXCEPT !.pc = "bp_timeout"]
    /\ failed_pushes_' = IF f.op = "TryPush" THEN failed_pushes_ + 1 ELSE failed_pushes_
    /\ UNCHANGED reserved_slot_

\* Reserve without its consumer_alive test (line 76).
ReserveCheckNoAlive(f, bytes) ==
    /\ IF \/ ~IsValidMessageSize(bytes, max_message_size)
          \/ reserved_slot_ # nullopt
       THEN ReserveFail([f EXCEPT !.obs = write_index - read_index])
       ELSE /\ pl' = [f EXCEPT !.pc = "reserve_load"]
            /\ UNCHANGED <<failed_pushes_, reserved_slot_>>
    /\ UNCHANGED <<queue_vars, messages_sent_, bytes_sent_, staged, next_id,
                   consumer_vars, committed, other_vars>>

\* Reserve without its test for an outstanding reservation (lines 70-73).
ReserveCheckNoReserved(f, bytes) ==
    /\ IF \/ ~IsValidMessageSize(bytes, max_message_size)
          \/ ~consumer_alive
       THEN ReserveFail([f EXCEPT !.obs = write_index - read_index])
       ELSE /\ pl' = [f EXCEPT !.pc = "reserve_load"]
            /\ UNCHANGED <<failed_pushes_, reserved_slot_>>
    /\ UNCHANGED <<queue_vars, messages_sent_, bytes_sent_, staged, next_id,
                   consumer_vars, committed, other_vars>>

\* Reserve, lines 66-78: size, outstanding reservation, consumer_alive.
ReserveCheck(f, bytes) ==
    /\ IF \/ ~IsValidMessageSize(bytes, max_message_size)
          \/ reserved_slot_ # nullopt
          \/ ~consumer_alive
       THEN ReserveFail([f EXCEPT !.obs = write_index - read_index])
       ELSE /\ pl' = [f EXCEPT !.pc = "reserve_load"]
            /\ UNCHANGED <<failed_pushes_, reserved_slot_>>
    /\ UNCHANGED <<queue_vars, messages_sent_, bytes_sent_, staged, next_id,
                   consumer_vars, committed, other_vars>>

\* Reserve, lines 81-103: load both indices, full check, remember the slot.
ReserveLoad ==
    /\ pl.pc = "reserve_load"
    /\ LET write == write_index
           read == read_index
       IN IF IsQueueFull(write, read, capacity)
          THEN /\ ReserveFail([pl EXCEPT !.obs = write - read])
               /\ UNCHANGED staged
          ELSE /\ reserved_slot_' = GetSlotIndex(write, capacity)
               /\ pl' = IF pl.op = "Reserve"
                        THEN PReturn([pl EXCEPT !.obs = write - read], "reserved", 0)
                        ELSE [pl EXCEPT !.pc = "push_copy", !.obs = write - read]
               /\ staged' = IF pl.op = "Reserve" THEN FreshResult ELSE staged
               /\ UNCHANGED failed_pushes_
    /\ UNCHANGED <<queue_vars, messages_sent_, bytes_sent_, next_id,
                   consumer_vars, committed, other_vars>>

\* ProducerHandle::Reserve(bytes) called by the user.
Reserve(bytes) ==
    /\ CanCall
    /\ ReserveCheck([PBegin(pl, "Reserve") EXCEPT
                        !.valid = IsValidMessageSize(bytes, max_message_size)], bytes)

\* Reserve as called from TryPush (line 216) and BlockingPush (line 170).
PushReserve ==
    /\ pl.pc = "reserve"
    /\ ReserveCheck(pl, Len(pl.data))

\* The user fills the region the ReserveResult points at.
WritePayload(n) ==
    /\ pl.pc = "idle"
    /\ reserved_slot_ # nullopt
    /\ staged = FreshResult
    /\ next_id <= MaxMessages
    /\ n = MsgSize(next_id)
    /\ staged' = [staged EXCEPT !.bytes = Stamped(next_id, n)]
    /\ buffer' = CopyPayload(buffer, reserved_slot_, Stamped(next_id, n))
    /\ next_id' = next_id + 1
    /\ UNCHANGED <<write_index, read_index, producer_alive, consumer_alive,
                   reserved_slot_, messages_sent_, bytes_sent_, failed_pushes_, pl,
                   consumer_vars, committed, other_vars>>

\* Commit without its size test (lines 108-110).
CommitCheckNoSize(f, actual_bytes) ==
    /\ IF reserved_slot_ = nullopt
       THEN /\ pl' = IF f.op = "Commit" THEN PReturn(f, "false", 0)
                     ELSE PReturn(f, "QueueFull", 0)
            /\ failed_pushes_' = IF f.op = "Commit" THEN failed_pushes_
                                 ELSE failed_pushes_ + 1
            /\ UNCHANGED buffer
       ELSE /\ buffer' = WriteSizePrefix(buffer, reserved_slot_, actual_bytes)
            /\ pl' = [f EXCEPT !.pc = "commit_store", !.actual = actual_bytes]
            /\ UNCHANGED failed_pushes_
    /\ UNCHANGED <<write_index, read_index, producer_alive, consumer_alive,
                   reserved_slot_, messages_sent_, bytes_sent_, staged, next_id,
                   consumer_vars, committed, other_vars>>

\* Commit, lines 108-123: size, reservation, then the size prefix into the
\* reserved slot.  Commit returning false: back in the caller (Commit itself,
\* TryPush lines 227-231, BlockingPush lines 177-181).
CommitCheck(f, actual_bytes) ==
    /\ IF \/ ~IsValidMessageSize(actual_bytes, max_message_size)
          \/ reserved_slot_ = nullopt
       THEN /\ pl' = IF f.op = "Commit" THEN PReturn(f, "false", 0)
                     ELSE PReturn(f, "QueueFull", 0)
            /\ failed_pushes_' = IF f.op = "Commit" THEN failed_pushes_
                                 ELSE failed_pushes_ + 1
            /\ UNCHANGED buffer
       ELSE /\ buffer' = WriteSizePrefix(buffer, reserved_slot_, actual_bytes)
            /\ pl' = [f EXCEPT !.pc = "commit_store", !.actual = actual_bytes]
            /\ UNCHANGED failed_pushes_
    /\ UNCHANGED <<write_index, read_index, producer_alive, consumer_alive,
                   reserved_slot_, messages_sent_, bytes_sent_, staged, next_id,
                   consumer_vars, committed, other_vars>>

\* ProducerHandle::Commit(actual_bytes) called by the user.  A caller that
\* commits n bytes has written at least n bytes through its reservation.
Commit(actual_bytes) ==
    /\ CanCall
    /\ (IsValidMessageSize(actual_bytes, max_message_size) /\ reserved_slot_ # nullopt)
          => actual_bytes <= Len(staged.bytes)
    /\ CommitCheck([PBegin(pl, "Commit") EXCEPT
                       !.valid = IsValidMessageSize(actual_bytes, max_message_size),
                       !.data = FirstBytes(staged.bytes, actual_bytes)], actual_bytes)

\* Commit as called from TryPush (line 226) and BlockingPush (line 176).
PushCommit ==
    /\ pl.pc = "push_commit"
    /\ CommitCheck(pl, Len(pl.data))

\* Commit, lines 126-130: write_index.store(write + 1, release).
CommitStore ==
    /\ pl.pc = "commit_store"
    /\ LET write == write_index
       IN write_index' = write + 1
    /\ committed' = Append(committed, pl.data)
    /\ pl' = [pl EXCEPT !.pc = "commit_notify"]
    /\ UNCHANGED <<read_index, producer_alive, consumer_alive, buffer,
                   reserved_slot_, messages_sent_, bytes_sent_, failed_pushes_,
                   staged, next_id, consumer_vars, other_vars>>

\* Commit, lines 133-142: notify, statistics, reservation cleared.
CommitNotify ==
    /\ pl.pc = "commit_notify"
    /\ cl' = NotifyWriteIndex(cl)
    /\ messages_sent_' = messages_sent_ + 1
    /\ bytes_sent_' = bytes_sent_ + pl.actual
    /\ reserved_slot_' = nullopt
    /\ staged' = IF pl.op = "Commit" THEN NoResult ELSE staged
    /\ pl' = PReturn([pl EXCEPT !.notifies = pl.notifies + 1],
                     IF pl.op = "Commit" THEN "true" ELSE "Success", 0)
    /\ UNCHANGED <<queue_vars, failed_pushes_, next_id, statistics, views, popped,
                   committed, other_vars>>

\* Rollback that gives the reserved slot up by stepping over it.
RollbackAdvancing ==
    /\ CanCall
    /\ reserved_slot_' = nullopt
    /\ staged' = NoResult
    /\ write_index' = IF reserved_slot_ # nullopt THEN write_index + 1 ELSE write_index
    /\ pl' = PReturn(PBegin(pl, "Rollback"), "void", 0)
    /\ UNCHANGED <<read_index, producer_alive, consumer_alive, buffer, messages_sent_,
                   bytes_sent_, failed_pushes_, next_id, consumer_vars, committed,
                   other_vars>>

\* ProducerHandle::Rollback()
Rollback ==
    /\ CanCall
    /\ reserved_slot_' = nullopt
    /\ staged' = NoResult
    /\ pl' = PReturn(PBegin(pl, "Rollback"), "void", 0)
    /\ UNCHANGED <<queue_vars, messages_sent_, bytes_sent_, failed_pushes_, next_id,
                   consumer_vars, committed, other_vars>>

\* ProducerHandle::ReserveResult::~ReserveResult(), lines 58-62: the caller
\* lets the ReserveResult go out of scope; the destructor's body is empty.
DestroyReserveResult ==
    /\ pl.pc = "idle"
    /\ staged.held
    /\ staged' = [staged EXCEPT !.held = FALSE]
    /\ UNCHANGED <<queue_vars, reserved_slot_, messages_sent_, bytes_sent_,
                   failed_pushes_, pl, next_id, consumer_vars, committed, other_vars>>

\* The bytes of a push call: a fresh stamped message when the size is valid.
PushData(n) ==
    IF IsValidMessageSize(n, max_message_size) THEN Stamped(next_id, n) ELSE Stamped(0, n)

\* ProducerHandle::TryPush(data), lines 205-213: size, then consumer_alive.
TryPush(n) ==
    /\ CanPush
    /\ IsValidMessageSize(n, max_message_size) => (next_id <= MaxMessages /\ n = MsgSize(next_id))
    /\ LET f == [PBegin(pl, "TryPush") EXCEPT
                    !.valid = IsValidMessageSize(n, max_message_size)]
       IN IF ~IsValidMessageSize(n, max_message_size)
          THEN /\ pl' = PReturn(f, "InvalidSize", 0)
               /\ UNCHANGED <<failed_pushes_, next_id>>
          ELSE IF ~consumer_alive
               THEN /\ failed_pushes_' = failed_pushes_ + 1
                    /\ pl' = PReturn(f, "ChannelClosed", 0)
                    /\ UNCHANGED next_id
               ELSE /\ pl' = [f EXCEPT !.pc = "reserve", !.data = PushData(n)]
                    /\ next_id' = next_id + 1
                    /\ UNCHANGED failed_pushes_
    /\ UNCHANGED <<queue_vars, reserved_slot_, messages_sent_, bytes_sent_, staged,
                   consumer_vars, committed, other_vars>>

\* TryPush line 223 / BlockingPush line 173: memcpy into the reserved region.
PushCopy ==
    /\ pl.pc = "push_copy"
    /\ buffer' = CopyPayload(buffer, reserved_slot_, pl.data)
    /\ pl' = [pl EXCEPT !.pc = "push_commit"]
    /\ UNCHANGED <<write_index, read_index, producer_alive, consumer_alive,
                   reserved_slot_, messages_sent_, bytes_sent_, failed_pushes_,
                   staged, next_id, consumer_vars, committed, other_vars>>

\* ProducerHandle::BlockingPush(data, timeout), lines 155-160.  expired is
\* whether the deadline computed at entry is already reached at the first
\* check (timeout zero); a later check may find it reached at any time.
BlockingPush(n, expired) ==
    /\ CanPush
    /\ IsValidMessageSize(n, max_message_size) => (next_id <= MaxMessages /\ n = MsgSize(next_id))
    /\ LET f == [PBegin(pl, "BlockingPush") EXCEPT
                    !.valid = IsValidMessageSize(n, max_message_size)]
       IN IF ~IsValidMessageSize(n, max_message_size)
          THEN /\ failed_pushes_' = failed_pushes_ + 1
               /\ pl' = PReturn(f, "InvalidSize", 0)
               /\ UNCHANGED next_id
          ELSE /\ next_id' = next_id + 1
               /\ pl' = [f EXCEPT !.pc = "bp_alive", !.data = PushData(n),
                                  !.expired = expired]
               /\ UNCHANGED failed_pushes_
    /\ UNCHANGED <<queue_vars, reserved_slot_, messages_sent_, bytes_sent_, staged,
                   consumer_vars, committed, other_vars>>

\* BlockingPush without the consumer_alive test at the top of its loop.
BlockingPushAliveSkipped ==
    /\ pl.pc = "bp_alive"
    /\ pl' = [pl EXCEPT !.pc = "reserve"]
    /\ UNCHANGED <<queue_vars, reserved_slot_, messages_sent_, bytes_sent_,
                   failed_pushes_, staged, next_id, consumer_vars, committed, other_vars>>

\* BlockingPush, lines 164-167: consumer_alive at the top of every iteration.
BlockingPushAlive ==
    /\ pl.pc = "bp_alive"
    /\ IF ~consumer_alive
       THEN /\ failed_pushes_' = failed_pushes_ + 1
            /\ pl' = PReturn(pl, "ChannelClosed", 0)
       ELSE /\ pl' = [pl EXCEPT !.pc = "reserve"]
            /\ UNCHANGED failed_pushes_
    /\ UNCHANGED <<queue_vars, reserved_slot_, messages_sent_, bytes_sent_, staged,
                   next_id, consumer_vars, committed, other_vars>>

\* BlockingPush, lines 187-191: now >= deadline.
BlockingPushTimeout(passed) ==
    /\ pl.pc = "bp_timeout"
    /\ pl.expired => passed
    /\ IF passed
       THEN /\ failed_pushes_' = failed_pushes_ + 1
            /\ pl' = PReturn(pl, "Timeout", 0)
       ELSE /\ pl' = [pl EXCEPT !.pc = "bp_spin"]
            /\ UNCHANGED failed_pushes_
    /\ UNCHANGED <<queue_vars, reserved_slot_, messages_sent_, bytes_sent_, staged,
                   next_id, consumer_vars, committed, other_vars>>

\* wait_strategy.hpp: up to SPIN_COUNT evaluations of the predicate (loads
\* only), then yield; control returns to the caller's loop either way.
SpinWaitWithYield(f, next) == [f EXCEPT !.pc = next]

\* BlockingPush whose step 7 keeps waiting while the queue is full.
BlockingPushSpinUntilSpace ==
    /\ pl.pc = "bp_spin"
    /\ ~IsQueueFull(write_index, read_index, capacity)
    /\ pl' = SpinWaitWithYield(pl, "bp_alive")
    /\ UNCHANGED <<queue_vars, reserved_slot_, messages_sent_, bytes_sent_,
                   failed_pushes_, staged, next_id, consumer_vars, committed, other_vars>>

\* BlockingPush, lines 195-199.
BlockingPushSpin ==
    /\ pl.pc = "bp_spin"
    /\ pl' = SpinWaitWithYield(pl, "bp_alive")
    /\ UNCHANGED <<queue_vars, reserved_slot_, messages_sent_, bytes_sent_,
                   failed_pushes_, staged, next_id, consumer_vars, committed, other_vars>>

\* Batches handed to BatchPush, by the sizes of their messages.
RECURSIVE SeqsUpTo(_, _)
SeqsUpTo(S, n) ==
    IF n = 0 THEN {<<>>}
    ELSE LET shorter == SeqsUpTo(S, n - 1)
         IN shorter \cup {Append(q, x) : q \in {r \in shorter : Len(r) = n - 1}, x \in S}

BatchSizes == SeqsUpTo(0..(max_message_size + 1), MaxBatch)

\* The place of the first message of invalid size in a batch, 0 if none.
FirstInvalid(sizes) ==
    LET bad == {j \in 1..Len(sizes) : ~IsValidMessageSize(sizes[j], max_message_size)}
    IN IF bad = {} THEN 0 ELSE CHOOSE j \in bad : \A k \in bad : j <= k

\* BatchPush validating only the first message of the batch.
BatchPushFirstOnly(sizes) ==
    /\ CanCall
    /\ LET valid == FirstInvalid(sizes) = 0
           first == sizes = <<>> \/ IsValidMessageSize(sizes[1], max_message_size)
           f == [PBegin(pl, "BatchPush") EXCEPT !.valid = valid,
                                               !.invalid_at = FirstInvalid(sizes),
                                               !.start_read = read_index]
       IN /\ valid => /\ next_id + Len(sizes) - 1 <= MaxMessages
                       /\ \A j \in 1..Len(sizes) : sizes[j] = MsgSize(next_id + j - 1)
          /\ IF sizes = <<>> \/ ~first \/ ~consumer_alive
             THEN /\ pl' = PReturn(f, "count", 0)
                  /\ UNCHANGED next_id
             ELSE /\ pl' = [f EXCEPT !.pc = "batch_check", !.i = 1,
                               !.batch = [j \in 1..Len(sizes) |->
                                             Stamped(next_id + j - 1, sizes[j])]]
                  /\ next_id' = next_id + Len(sizes)
    /\ UNCHANGED <<queue_vars, reserved_slot_, messages_sent_, bytes_sent_,
                   failed_pushes_, staged, consumer_vars, committed, other_vars>>

\* ProducerHandle::BatchPush(messages), lines 240-258: empty batch, fail-fast
\* validation of every message, one consumer_alive check.
BatchPush(sizes) ==
    /\ CanCall
    /\ LET valid == FirstInvalid(sizes) = 0
           f == [PBegin(pl, "BatchPush") EXCEPT !.valid = valid,
                                               !.invalid_at = FirstInvalid(sizes),
                                               !.start_read = read_index]
       IN /\ valid => /\ next_id + Len(sizes) - 1 <= MaxMessages
                       /\ \A j \in 1..Len(sizes) : sizes[j] = MsgSize(next_id + j - 1)
          /\ IF sizes = <<>> \/ ~valid \/ ~consumer_alive
             THEN /\ pl' = PReturn(f, "count", 0)
                  /\ UNCHANGED next_id
             ELSE /\ pl' = [f EXCEPT !.pc = "batch_check", !.i = 1,
                               !.batch = [j \in 1..Len(sizes) |->
                                             Stamped(next_id + j - 1, sizes[j])]]
                  /\ next_id' = next_id + Len(sizes)
    /\ UNCHANGED <<queue_vars, reserved_slot_, messages_sent_, bytes_sent_,
                   failed_pushes_, staged, consumer_vars, committed, other_vars>>

\* BatchPush, lines 263-268: load both indices, stop when full.
BatchPushCheck ==
    /\ pl.pc = "batch_check"
    /\ LET write == write_index
           read == read_index
       IN pl' = IF IsQueueFull(write, read, capacity)
                THEN [pl EXCEPT !.pc = "batch_end", !.obs = write - read]
                ELSE [pl EXCEPT !.pc = "batch_write", !.write = write,
                                !.obs = write - read]
    /\ UNCHANGED <<queue_vars, reserved_slot_, messages_sent_, bytes_sent_,
                   failed_pushes_, staged, next_id, consumer_vars, committed, other_vars>>

\* BatchPush, lines 271-278: the slot pointer of write & mask, then the size
\* prefix.
BatchPushWrite ==
    /\ pl.pc = "batch_write"
    /\ LET slot == GetSlotIndex(pl.write, capacity)
           msg == pl.batch[pl.i]
       IN buffer' = WriteSizePrefix(buffer, slot, Len(msg))
    /\ pl' = [pl EXCEPT !.pc = "batch_copy"]
    /\ UNCHANGED <<write_index, read_index, producer_alive, consumer_alive,
                   reserved_slot_, messages_sent_, bytes_sent_, failed_pushes_,
                   staged, next_id, consumer_vars, committed, other_vars>>

\* BatchPush, line 279: std::memcpy of the payload behind the prefix.
BatchPushCopy ==
    /\ pl.pc = "batch_copy"
    /\ LET slot == GetSlotIndex(pl.write, capacity)
           msg == pl.batch[pl.i]
       IN buffer' = CopyPayload(buffer, slot, msg)
    /\ pl' = [pl EXCEPT !.pc = "batch_store"]
    /\ UNCHANGED <<write_index, read_index, producer_alive, consumer_alive,
                   reserved_slot_, messages_sent_, bytes_sent_, failed_pushes_,
                   staged, next_id, consumer_vars, committed, other_vars>>

\* BatchPush notifying after every write_index store.
BatchPushStoreNotifying ==
    /\ pl.pc = "batch_store"
    /\ write_index' = pl.write + 1
    /\ committed' = Append(committed, pl.batch[pl.i])
    /\ cl' = NotifyWriteIndex(cl)
    /\ pl' = [pl EXCEPT !.pushed = pl.pushed + 1,
                        !.total = pl.total + Len(pl.batch[pl.i]),
                        !.i = pl.i + 1,
                        !.notifies = pl.notifies + 1,
                        !.pc = IF pl.i + 1 > Len(pl.batch) THEN "batch_end"
                               ELSE "batch_check"]
    /\ UNCHANGED <<read_index, producer_alive, consumer_alive, buffer,
                   reserved_slot_, messages_sent_, bytes_sent_, failed_pushes_,
                   staged, next_id, statistics, views, popped, other_vars>>

\* BatchPush, lines 282-287: write_index.store(write + 1, release), counters,
\* next message.
BatchPushStore ==
    /\ pl.pc = "batch_store"
    /\ write_index' = pl.write + 1
    /\ committed' = Append(committed, pl.batch[pl.i])
    /\ pl' = [pl EXCEPT !.pushed = pl.pushed + 1,
                        !.total = pl.total + Len(pl.batch[pl.i]),
                        !.i = pl.i + 1,
                        !.pc = IF pl.i + 1 > Len(pl.batch) THEN "batch_end"
                               ELSE "batch_check"]
    /\ UNCHANGED <<read_index, producer_alive, consumer_alive, buffer,
                   reserved_slot_, messages_sent_, bytes_sent_, failed_pushes_,
                   staged, next_id, consumer_vars, other_vars>>

\* BatchPush, lines 294-302: one notify and one statistics update if pushed > 0.
\* The batch is the caller's own span of messages and outlives the call.
BatchPushEnd ==
    /\ pl.pc = "batch_end"
    /\ IF pl.pushed > 0
       THEN /\ cl' = NotifyWriteIndex(cl)
            /\ messages_sent_' = messages_sent_ + pl.pushed
            /\ bytes_sent_' = bytes_sent_ + pl.total
            /\ pl' = [PReturn([pl EXCEPT !.notifies = pl.notifies + 1], "count", pl.pushed)
                        EXCEPT !.batch = pl.batch]
       ELSE /\ pl' = [PReturn(pl, "count", 0) EXCEPT !.batch = pl.batch]
            /\ UNCHANGED <<cl, messages_sent_, bytes_sent_>>
    /\ UNCHANGED <<queue_vars, reserved_slot_, failed_pushes_, staged, next_id,
                   statistics, views, popped, committed, other_vars>>

\* ProducerHandle::~ProducerHandle(), lines 344-347: fence, producer_alive = false.
DestroyProducer ==
    /\ pl.pc = "idle"
    /\ producer_alive' = FALSE
    /\ pl' = [pl EXCEPT !.pc = "dtor_notify", !.op = "~ProducerHandle"]
    /\ UNCHANGED <<write_index, read_index, consumer_alive, buffer,
                   reserved_slot_, messages_sent_, bytes_sent_, failed_pushes_,
                   staged, next_id, consumer_vars, committed, other_vars>>

\* ProducerHandle::~ProducerHandle(), line 350: write_index.notify_one().
DestroyProducerNotify ==
    /\ pl.pc = "dtor_notify"
    /\ cl' = NotifyWriteIndex(cl)
    /\ pl' = [pl EXCEPT !.pc = "dead"]
    /\ UNCHANGED <<queue_vars, reserved_slot_, messages_sent_, bytes_sent_,
                   failed_pushes_, staged, next_id, statistics, views, popped,
                   committed, other_vars>>

\* The caller has the call's result and goes on.
ProducerResume ==
    /\ pl.pc = "returned"
    /\ pl' = ProducerIdle
    /\ UNCHANGED <<queue_vars, reserved_slot_, messages_sent_, bytes_sent_,
                   failed_pushes_, staged, next_id, consumer_vars, committed, other_vars>>

ProducerStep ==
    \/ ProducerResume
    \/ \E n \in 0..(max_message_size + 1) : Reserve(n)
    \/ PushReserve
    \/ ReserveLoad
    \/ \E n \in 1..max_message_size : WritePayload(n)
    \/ \E n \in 0..(max_message_size + 1) : Commit(n)
    \/ PushCommit
    \/ CommitStore
    \/ CommitNotify
    \/ Rollback
    \/ \E n \in 0..(max_message_size + 1) : TryPush(n)
    \/ PushCopy
    \/ \E n \in 0..(max_message_size + 1), expired \in BOOLEAN : BlockingPush(n, expired)
    \/ BlockingPushAlive
    \/ \E passed \in BOOLEAN : BlockingPushTimeout(passed)
    \/ BlockingPushSpin
    \/ \E sizes \in BatchSizes : BatchPush(sizes)
    \/ BatchPushCheck
    \/ BatchPushWrite
    \/ BatchPushCopy
    \/ BatchPushStore
    \/ BatchPushEnd
    \/ DestroyProducer
    \/ DestroyProducerNotify

\* ------------------------------------------------------------------------
\* Consumer thread (consumer_handle.cpp)
\* ------------------------------------------------------------------------

\* Entry of a consumer API call.  The fields start_read, notifies and, for
\* BatchPop, started_dead (the producer was destroyed before the call) are
\* history.
CBegin(f, op) ==
    [f EXCEPT !.op = op, !.status = "running",
              !.start_read = read_index, !.started_dead = FALSE,
              !.notifies = 0, !.after_shutdown = ShutdownReturned]

\* Return of a consumer API call; the call's locals die, the caller of
\* BatchPop still knows the arguments max_count and timeout it passed.
CReturn(f, status) ==
    [f EXCEPT !.pc = "returned", !.status = status, !.ret = "top",
              !.timeout = IF f.op = "BatchPop" THEN f.timeout ELSE "zero",
              !.expired = FALSE, !.producer_alive = TRUE, !.batch_alive = TRUE,
              !.read = 0, !.write = 0, !.size = 0, !.messages = <<>>]

CanPop == cl.pc = "idle" /\ statistics.failed_pops < MaxFailedPops

\* The call goes on at pc; the caller holds no span while a pop call runs.
Goto(f, pc) ==
    /\ cl' = [f EXCEPT !.pc = pc]
    /\ views' = <<>>
    /\ UNCHANGED popped

\* The call returns status and the spans vs to the caller, who reads them.
Finish(f, status, vs) ==
    /\ cl' = CReturn(f, status)
    /\ views' = vs
    /\ popped' = popped \o [k \in 1..Len(vs) |-> ViewContent(buffer, vs[k])]

\* BlockingPop returns (lines 161, 174, 182, 195, 202): to the user, or into
\* BatchPop lines 231-236.
BlockingPopDone(f, status, view) ==
    IF f.op = "BatchPop" /\ status = "Success"
    THEN Goto([f EXCEPT !.messages = <<view>>], "bat_refresh")
    ELSE Finish(f, status, IF status = "Success" THEN <<view>> ELSE <<>>)

\* TryPop returns: to the user, or into BlockingPop at its fast path (line
\* 160), its infinite loop (line 173) or its finite loop (line 194).
TryPopDone(f, status, view) ==
    CASE f.ret = "top" ->
            Finish(f, status, IF status = "Success" THEN <<view>> ELSE <<>>)
      [] f.ret # "top" /\ status \in {"Success", "ChannelClosed"} ->
            BlockingPopDone(f, status, view)
      [] f.ret = "bp_fast" /\ status = "Empty" /\ f.timeout = "infinite" ->
            Goto(f, "bpi_load")
      [] f.ret = "bp_fast" /\ status = "Empty" /\ f.timeout # "infinite" ->
            Goto([f EXCEPT !.ret = "bp_fin"], "tp_alive")
      [] f.ret = "bp_inf" /\ status = "Empty" ->
            Goto(f, "bpi_load")
      [] f.ret = "bp_fin" /\ status = "Empty" ->
            Goto(f, "bpf_timeout")

NoView == [slot |-> 0, size |-> 0]

\* TryPop, line 66: producer_alive first.
TryPopAlive(f) ==
    /\ Goto([f EXCEPT !.producer_alive = producer_alive], "tp_load")
    /\ UNCHANGED <<queue_vars, producer_vars, statistics, committed, other_vars>>

\* ConsumerHandle::TryPop() called by the user.
TryPop ==
    /\ CanPop
    /\ TryPopAlive(CBegin(cl, "TryPop"))

\* TryPop as called from BlockingPop.
PopTryPop ==
    /\ cl.pc = "tp_alive"
    /\ TryPopAlive(cl)

\* TryPop, lines 69-81: both indices, empty check.
TryPopLoad ==
    /\ cl.pc = "tp_load"
    /\ LET read == read_index
           write == write_index
       IN IF IsQueueEmpty(read, write, capacity)
          THEN IF ~cl.producer_alive
               THEN /\ statistics' = [statistics EXCEPT !.failed_pops = @ + 1]
                    /\ TryPopDone(cl, "ChannelClosed", NoView)
               ELSE /\ TryPopDone(cl, "Empty", NoView)
                    /\ UNCHANGED statistics
          ELSE /\ Goto([cl EXCEPT !.read = read], "tp_read")
               /\ UNCHANGED statistics
    /\ UNCHANGED <<queue_vars, producer_vars, committed, other_vars>>

\* TryPop, lines 84-97: the size prefix of slot read & mask, the span.
TryPopRead ==
    /\ cl.pc = "tp_read"
    /\ Goto([cl EXCEPT !.size = ReadSizePrefix(buffer, GetSlotIndex(cl.read, capacity))],
            "tp_store")
    /\ UNCHANGED <<queue_vars, producer_vars, statistics, committed, other_vars>>

\* TryPop, line 100: read_index.store(read + 1, release).  The slot is
\* released to the producer here, before the call returns its span.
TryPopStore ==
    /\ cl.pc = "tp_store"
    /\ read_index' = cl.read + 1
    /\ Goto(cl, "tp_notify")
    /\ UNCHANGED <<write_index, producer_alive, consumer_alive, buffer,
                   producer_vars, statistics, committed, other_vars>>

\* TryPop, lines 103-110: read_index.notify_one(), statistics, return the
\* span; the caller reads the bytes the span points at after the return.
TryPopNotify ==
    /\ cl.pc = "tp_notify"
    /\ statistics' = [statistics EXCEPT !.messages_received = @ + 1,
                                        !.bytes_received = @ + cl.size]
    /\ TryPopDone([cl EXCEPT !.notifies = cl.notifies + 1], "Success",
                  [slot |-> GetSlotIndex(cl.read, capacity), size |-> cl.size])
    /\ UNCHANGED <<queue_vars, producer_vars, committed, other_vars>>

Timeouts == {"zero", "finite", "infinite"}

\* ConsumerHandle::BlockingPop(timeout), lines 156-159: the deadline, then the
\* fast path's TryPop.
BlockingPopEnter(f, timeout) ==
    TryPopAlive([f EXCEPT !.timeout = timeout, !.expired = (timeout = "zero"),
                          !.ret = "bp_fast"])

BlockingPop(timeout) ==
    /\ CanPop
    /\ BlockingPopEnter(CBegin(cl, "BlockingPop"), timeout)

\* BlockingPop, lines 167-177: infinite timeout, both indices, retry when
\* they differ.
BlockingPopLoad ==
    /\ cl.pc = "bpi_load"
    /\ LET current_write == write_index
           current_read == read_index
       IN IF current_write # current_read
          THEN Goto([cl EXCEPT !.ret = "bp_inf"], "tp_alive")
          ELSE Goto([cl EXCEPT !.write = current_write], "bpi_alive")
    /\ UNCHANGED <<queue_vars, producer_vars, statistics, committed, other_vars>>

\* BlockingPop, lines 180-183: producer_alive after the indices.
BlockingPopAlive ==
    /\ cl.pc = "bpi_alive"
    /\ IF ~producer_alive
       THEN /\ statistics' = [statistics EXCEPT !.failed_pops = @ + 1]
            /\ BlockingPopDone(cl, "ChannelClosed", NoView)
       ELSE /\ Goto(cl, "bpi_wait")
            /\ UNCHANGED statistics
    /\ UNCHANGED <<queue_vars, producer_vars, committed, other_vars>>

\* BlockingPop, line 186: write_index.wait(current_write).  std::atomic::wait
\* returns only once the value differs from current_write; while it is equal
\* the thread parks until a notify (or a spurious wake) makes it compare again.
BlockingPopWait ==
    /\ cl.pc = "bpi_wait"
    /\ IF write_index # cl.write
       THEN Goto(cl, "bpi_load")
       ELSE Goto(cl, "parked")
    /\ UNCHANGED <<queue_vars, producer_vars, statistics, committed, other_vars>>

\* A parked thread may wake without a notify; it compares again.
SpuriousWake ==
    /\ cl.pc = "parked"
    /\ Goto(cl, "bpi_wait")
    /\ UNCHANGED <<queue_vars, producer_vars, statistics, committed, other_vars>>

\* BlockingPop giving up with a read_index store, as if it had consumed.
BlockingPopTimeoutConsuming(passed) ==
    /\ cl.pc = "bpf_timeout"
    /\ cl.expired => passed
    /\ IF passed
       THEN /\ statistics' = [statistics EXCEPT !.failed_pops = @ + 1]
            /\ read_index' = read_index + 1
            /\ BlockingPopDone(cl, "Timeout", NoView)
       ELSE /\ Goto(cl, "bpf_spin")
            /\ UNCHANGED <<statistics, read_index>>
    /\ UNCHANGED <<write_index, producer_alive, consumer_alive, buffer,
                   producer_vars, committed, other_vars>>

\* BlockingPop, lines 199-203: now >= deadline.
BlockingPopTimeout(passed) ==
    /\ cl.pc = "bpf_timeout"
    /\ cl.expired => passed
    /\ IF passed
       THEN /\ statistics' = [statistics EXCEPT !.failed_pops = @ + 1]
            /\ BlockingPopDone(cl, "Timeout", NoView)
       ELSE /\ Goto(cl, "bpf_spin")
            /\ UNCHANGED statistics
    /\ UNCHANGED <<queue_vars, producer_vars, committed, other_vars>>

\* BlockingPop, lines 206-211, then the loop's TryPop (line 193).
BlockingPopSpin ==
    /\ cl.pc = "bpf_spin"
    /\ Goto(SpinWaitWithYield(cl, "tp_alive"), "tp_alive")
    /\ UNCHANGED <<queue_vars, producer_vars, statistics, committed, other_vars>>

\* ConsumerHandle::BatchPop(max_count, timeout), lines 219-230.
BatchPop(max_count, timeout) ==
    /\ CanPop
    /\ LET f == [CBegin(cl, "BatchPop") EXCEPT !.max_count = max_count,
                                                !.timeout = timeout,
                                                !.started_dead = ~producer_alive]
       IN IF max_count = 0
          THEN Finish(f, "Empty", <<>>)
          ELSE Goto([f EXCEPT !.batch_alive = producer_alive],
                    IF timeout # "zero" THEN "bat_block" ELSE "bat_loop")
    /\ UNCHANGED <<queue_vars, producer_vars, statistics, committed, other_vars>>

\* BatchPop, line 231: BlockingPop(timeout) for the first message.
BatchPopBlock ==
    /\ cl.pc = "bat_block"
    /\ BlockingPopEnter(cl, cl.timeout)

\* BatchPop, line 239: producer_alive again after the wait.
BatchPopRefresh ==
    /\ cl.pc = "bat_refresh"
    /\ Goto([cl EXCEPT !.batch_alive = producer_alive],
            IF Len(cl.messages) < cl.max_count THEN "bat_loop" ELSE "bat_end")
    /\ UNCHANGED <<queue_vars, producer_vars, statistics, committed, other_vars>>

\* BatchPop, lines 245-251: both indices, stop when empty.
BatchPopLoad ==
    /\ cl.pc = "bat_loop"
    /\ LET read == read_index
           write == write_index
       IN IF IsQueueEmpty(read, write, capacity)
          THEN Goto(cl, "bat_end")
          ELSE Goto([cl EXCEPT !.read = read], "bat_read")
    /\ UNCHANGED <<queue_vars, producer_vars, statistics, committed, other_vars>>

\* BatchPop, lines 254-266: the size prefix, the span appended to the vector.
BatchPopRead ==
    /\ cl.pc = "bat_read"
    /\ LET slot == GetSlotIndex(cl.read, capacity)
       IN Goto([cl EXCEPT !.messages =
                   Append(cl.messages, [slot |-> slot, size |-> ReadSizePrefix(buffer, slot)])],
               "bat_store")
    /\ UNCHANGED <<queue_vars, producer_vars, statistics, committed, other_vars>>

\* BatchPop, lines 269-273: read_index.store(read + 1, release), statistics.
BatchPopStore ==
    /\ cl.pc = "bat_store"
    /\ read_index' = cl.read + 1
    /\ statistics' = [statistics EXCEPT
                         !.messages_received = @ + 1,
                         !.bytes_received = @ + cl.messages[Len(cl.messages)].size]
    /\ Goto(cl, IF Len(cl.messages) < cl.max_count THEN "bat_loop" ELSE "bat_end")
    /\ UNCHANGED <<write_index, producer_alive, consumer_alive, buffer,
                   producer_vars, committed, other_vars>>

\* BatchPop without its ChannelClosed return (lines 283-286).
BatchPopEndNoClosed ==
    /\ cl.pc = "bat_end"
    /\ IF cl.messages # <<>>
       THEN Finish([cl EXCEPT !.notifies = cl.notifies + 1], "Success", cl.messages)
       ELSE Finish(cl, "Empty", <<>>)
    /\ UNCHANGED <<queue_vars, producer_vars, statistics, committed, other_vars>>

\* BatchPop, lines 277-288: one notify when something was popped, else
\* ChannelClosed or Empty by the producer_alive value read earlier.
BatchPopEnd ==
    /\ cl.pc = "bat_end"
    /\ IF cl.messages # <<>>
       THEN /\ Finish([cl EXCEPT !.notifies = cl.notifies + 1], "Success", cl.messages)
            /\ UNCHANGED statistics
       ELSE IF ~cl.batch_alive
            THEN /\ statistics' = [statistics EXCEPT !.failed_pops = @ + 1]
                 /\ Finish(cl, "ChannelClosed", <<>>)
            ELSE /\ Finish(cl, "Empty", <<>>)
                 /\ UNCHANGED statistics
    /\ UNCHANGED <<queue_vars, producer_vars, committed, other_vars>>

\* ConsumerHandle::~ConsumerHandle(), lines 143-148: fence, consumer_alive =
\* false, read_index.notify_one() (no thread ever waits on read_index).
DestroyConsumer ==
    /\ cl.pc = "idle"
    /\ consumer_alive' = FALSE
    /\ cl' = [cl EXCEPT !.pc = "dead", !.op = "~ConsumerHandle"]
    /\ views' = <<>>
    /\ UNCHANGED <<write_index, read_index, producer_alive, buffer, producer_vars,
                   statistics, popped, committed, other_vars>>

\* The caller has the call's result (and keeps the spans) and goes on.
ConsumerResume ==
    /\ cl.pc = "returned"
    /\ cl' = ConsumerIdle
    /\ UNCHANGED <<queue_vars, producer_vars, statistics, views, popped, committed, other_vars>>

ConsumerStep ==
    \/ ConsumerResume
    \/ TryPop
    \/ PopTryPop
    \/ TryPopLoad
    \/ TryPopRead
    \/ TryPopStore
    \/ TryPopNotify
    \/ \E timeout \in Timeouts : BlockingPop(timeout)
    \/ BlockingPopLoad
    \/ BlockingPopAlive
    \/ BlockingPopWait
    \/ \E passed \in BOOLEAN : BlockingPopTimeout(passed)
    \/ BlockingPopSpin
    \/ \E max_count \in 0..MaxBatch, timeout \in Timeouts : BatchPop(max_count, timeout)
    \/ BatchPopBlock
    \/ BatchPopRefresh
    \/ BatchPopLoad
    \/ BatchPopRead
    \/ BatchPopStore
    \/ BatchPopEnd
    \/ DestroyConsumer

Next == ProducerStep \/ ConsumerStep \/ SpuriousWake

Spec == Init /\ [][Next]_vars

\* ------------------------------------------------------------------------
\* The copying API alone: TryPush and BatchPush against TryPop and BatchPop
\* (no Reserve/Commit by the user, no blocking calls, no destructors).
\* ------------------------------------------------------------------------

CopyProducerStep ==
    \/ ProducerResume
    \/ \E n \in 0..(max_message_size + 1) : TryPush(n)
    \/ PushReserve
    \/ ReserveLoad
    \/ PushCopy
    \/ PushCommit
    \/ CommitStore
    \/ CommitNotify
    \/ \E sizes \in BatchSizes : BatchPush(sizes)
    \/ BatchPushCheck
    \/ BatchPushWrite
    \/ BatchPushCopy
    \/ BatchPushStore
    \/ BatchPushEnd

CopyConsumerStep ==
    \/ ConsumerResume
    \/ TryPop
    \/ TryPopLoad
    \/ TryPopRead
    \/ TryPopStore
    \/ TryPopNotify
    \/ \E max_count \in 0..MaxBatch : BatchPop(max_count, "zero")
    \/ BatchPopLoad
    \/ BatchPopRead
    \/ BatchPopStore
    \/ BatchPopEnd

CopyNext == CopyProducerStep \/ CopyConsumerStep

CopySpec == Init /\ [][CopyNext]_vars

\* ------------------------------------------------------------------------
\* The reservation API: Reserve, the write through the ReserveResult, Commit,
\* Rollback and the ReserveResult going out of scope, next to the copying
\* pushes, against TryPop (no blocking calls, no handle destructors).
\* ------------------------------------------------------------------------

ReserveProducerStep ==
    \/ ProducerResume
    \/ \E n \in 0..(max_message_size + 1) : Reserve(n)
    \/ ReserveLoad
    \/ \E n \in 1..max_message_size : WritePayload(n)
    \/ \E n \in 0..(max_message_size + 1) : Commit(n)
    \/ CommitStore
    \/ CommitNotify
    \/ Rollback
    \/ DestroyReserveResult
    \/ \E n \in 1..max_message_size : TryPush(n)
    \/ PushReserve
    \/ PushCopy
    \/ PushCommit
    \/ \E sizes \in BatchSizes : BatchPush(sizes)
    \/ BatchPushCheck
    \/ BatchPushWrite
    \/ BatchPushCopy
    \/ BatchPushStore
    \/ BatchPushEnd

ReserveConsumerStep ==
    \/ ConsumerResume
    \/ TryPop
    \/ TryPopLoad
    \/ TryPopRead
    \/ TryPopStore
    \/ TryPopNotify

ReserveNext == ReserveProducerStep \/ ReserveConsumerStep

ReserveSpec == Init /\ [][ReserveNext]_vars

\* ------------------------------------------------------------------------
\* BatchPop with every max_count and timeout (its blocking prefix runs
\* BlockingPop and TryPop), against TryPush and the producer's destructor.
\* ------------------------------------------------------------------------

BatchPopProducerStep ==
    \/ ProducerResume
    \/ \E n \in 1..max_message_size : TryPush(n)
    \/ PushReserve
    \/ ReserveLoad
    \/ PushCopy
    \/ PushCommit
    \/ CommitStore
    \/ CommitNotify
    \/ DestroyProducer
    \/ DestroyProducerNotify

BatchPopConsumerStep ==
    \/ ConsumerResume
    \/ \E max_count \in 0..MaxBatch, timeout \in Timeouts : BatchPop(max_count, timeout)
    \/ BatchPopBlock
    \/ PopTryPop
    \/ TryPopLoad
    \/ TryPopRead
    \/ TryPopStore
    \/ TryPopNotify
    \/ BlockingPopLoad
    \/ BlockingPopAlive
    \/ BlockingPopWait
    \/ \E passed \in BOOLEAN : BlockingPopTimeout(passed)
    \/ BlockingPopSpin
    \/ BatchPopRefresh
    \/ BatchPopLoad
    \/ BatchPopRead
    \/ BatchPopStore
    \/ BatchPopEnd

BatchPopNext == BatchPopProducerStep \/ BatchPopConsumerStep \/ SpuriousWake

BatchPopSpec == Init /\ [][BatchPopNext]_vars

\* ------------------------------------------------------------------------
\* The blocking calls under fair scheduling: BlockingPush against
\* BlockingPop, and both destructors.  A thread that is inside a call keeps
\* running (weak fairness of its steps); nothing obliges a caller to start
\* a call, and a parked thread gets no wake-up that nobody sends.
\* ------------------------------------------------------------------------

FairProducerStep ==
    \/ ProducerResume
    \/ \E n \in 1..max_message_size, expired \in BOOLEAN : BlockingPush(n, expired)
    \/ BlockingPushAlive
    \/ PushReserve
    \/ ReserveLoad
    \/ PushCopy
    \/ PushCommit
    \/ CommitStore
    \/ CommitNotify
    \/ \E passed \in BOOLEAN : BlockingPushTimeout(passed)
    \/ BlockingPushSpin
    \/ DestroyProducer
    \/ DestroyProducerNotify

FairConsumerStep ==
    \/ ConsumerResume
    \/ \E timeout \in Timeouts : BlockingPop(timeout)
    \/ PopTryPop
    \/ TryPopLoad
    \/ TryPopRead
    \/ TryPopStore
    \/ TryPopNotify
    \/ BlockingPopLoad
    \/ BlockingPopAlive
    \/ BlockingPopWait
    \/ \E passed \in BOOLEAN : BlockingPopTimeout(passed)
    \/ BlockingPopSpin
    \/ DestroyConsumer

FairNext == FairProducerStep \/ FairConsumerStep \/ SpuriousWake

\* The steps of a producer call that has started (the destructor included).
ProducerRuns == pl.pc \notin {"idle", "dead"} /\ FairProducerStep

\* The steps of a consumer call that has started and is not parked.
ConsumerRuns == cl.pc \notin {"idle", "dead", "parked"} /\ FairConsumerStep

FairSpec ==
    /\ Init
    /\ [][FairNext]_vars
    /\ WF_vars(ProducerRuns)
    /\ WF_vars(ConsumerRuns)

\* ------------------------------------------------------------------------
\* MailboxBroker (broker.cpp)
\* ------------------------------------------------------------------------

\* The liveness flags and the handles of a queue, whichever queue it is.
ProducerAliveOf(q) == IF q = TheQueue THEN producer_alive ELSE queues[q].producer_alive
ConsumerAliveOf(q) == IF q = TheQueue THEN consumer_alive ELSE queues[q].consumer_alive

\* A handle exists until its destructor has started.
ProducerHandleExists(q) ==
    IF q = TheQueue THEN pl.pc \notin {"dtor_notify", "dead", "overwritten"}
    ELSE queues[q].producer_handle
ConsumerHandleExists(q) ==
    IF q = TheQueue THEN cl.pc \notin {"dead", "overwritten"} ELSE queues[q].consumer_handle

\* channels_.contains(name)
Contains(name) == channels_[name] # NoQueue

\* std::unique_lock / std::shared_lock on registry_mutex_ can be taken.
CanLockExclusive == registry_mutex_.exclusive = 0 /\ registry_mutex_.shared = {}
CanLockShared == registry_mutex_.exclusive = 0

BGoto(t, pc) == bt' = [bt EXCEPT ![t].pc = pc]

\* The call returns: its locals are gone, its result is in the caller's hands.
BReturn(t, result, pair) ==
    bt' = [bt EXCEPT ![t].pc = "returned", ![t].result = result, ![t].pair = pair,
                     ![t].q = NoQueue, ![t].producer_alive = FALSE]

\* RequestChannel, lines 62-69: normalize, validate.
RequestChannel(t, name, config) ==
    /\ bt[t].pc = "idle"
    /\ total_created_ < MaxQueues
    /\ LET normalized == Normalize(config)
           f == [BrokerIdle EXCEPT !.op = "RequestChannel", !.name = name,
                                   !.config = config, !.normalized = normalized]
       IN  IF ~IsValid(normalized)
           THEN bt' = [bt EXCEPT ![t] = [f EXCEPT !.pc = "returned",
                                                  !.result = "InvalidConfig"]]
           ELSE bt' = [bt EXCEPT ![t] = [f EXCEPT !.pc = "req_lock"]]
    /\ UNCHANGED <<channel_vars, broker_vars, queues, moved>>

\* RequestChannel without the registry lock.
RequestLockSkipped(t) ==
    /\ bt[t].pc = "req_lock"
    /\ BGoto(t, "req_check")
    /\ UNCHANGED <<channel_vars, broker_vars, queues, moved>>

\* RequestChannel, line 72: std::unique_lock lock(registry_mutex_).
RequestLock(t) ==
    /\ bt[t].pc = "req_lock"
    /\ CanLockExclusive
    /\ registry_mutex_' = [registry_mutex_ EXCEPT !.exclusive = t]
    /\ BGoto(t, "req_check")
    /\ UNCHANGED <<channel_vars, channels_, total_created_, total_destroyed_, queues, moved>>

\* RequestChannel, lines 75-77: the name is taken -> NameExists.
RequestCheck(t) ==
    /\ bt[t].pc = "req_check"
    /\ IF Contains(bt[t].name)
       THEN /\ BReturn(t, "NameExists", NoQueue)
            /\ registry_mutex_' = Unlocked
       ELSE /\ BGoto(t, "req_create")
            /\ UNCHANGED registry_mutex_
    /\ UNCHANGED <<channel_vars, channels_, total_created_, total_destroyed_, queues, moved>>

\* RequestChannel, lines 80-109: make_shared<SPSCQueue> with the normalized
\* configuration, emplace, total_created_++, both handles (their Impl
\* constructors store the flags true), Success; std::bad_alloc from the
\* allocation -> AllocationFailed with nothing registered.
RequestCreate(t, allocated) ==
    /\ bt[t].pc = "req_create"
    /\ allocated => total_created_ < MaxQueues
    /\ IF allocated
       THEN LET q == total_created_ + 1 IN
            /\ queues' = [queues EXCEPT ![q] =
                   [capacity |-> bt[t].normalized.capacity,
                    max_message_size |-> bt[t].normalized.max_message_size,
                    producer_alive |-> TRUE, consumer_alive |-> TRUE,
                    producer_handle |-> TRUE, consumer_handle |-> TRUE]]
            /\ channels_' = IF Contains(bt[t].name) THEN channels_
                             ELSE [channels_ EXCEPT ![bt[t].name] = q]
            /\ total_created_' = total_created_ + 1
            /\ BReturn(t, "Success", q)
       ELSE /\ BReturn(t, "AllocationFailed", NoQueue)
            /\ UNCHANGED <<queues, channels_, total_created_>>
    /\ registry_mutex_' = Unlocked
    /\ UNCHANGED <<channel_vars, total_destroyed_, moved>>

\* RequestChannel, lines 100-101 and 106-109: std::bad_alloc from the
\* make_unique<Impl> of a handle constructor.  The queue is already in
\* channels_ (line 93) and counted (line 96); the catch block returns
\* AllocationFailed.  When the ConsumerHandle fails, the ProducerHandle
\* constructed at line 100 is destroyed by the unwinding and its destructor
\* stores producer_alive = false.  No handle of the queue exists afterwards.
RequestHandlesFail(t, handle) ==
    /\ bt[t].pc = "req_create"
    /\ total_created_ < MaxQueues
    /\ LET q == total_created_ + 1 IN
       /\ queues' = [queues EXCEPT ![q] =
              [capacity |-> bt[t].normalized.capacity,
               max_message_size |-> bt[t].normalized.max_message_size,
               producer_alive |-> (handle = "producer"), consumer_alive |-> TRUE,
               producer_handle |-> FALSE, consumer_handle |-> FALSE]]
       /\ channels_' = IF Contains(bt[t].name) THEN channels_
                        ELSE [channels_ EXCEPT ![bt[t].name] = q]
       /\ total_created_' = total_created_ + 1
       /\ BReturn(t, "AllocationFailed", NoQueue)
    /\ registry_mutex_' = Unlocked
    /\ UNCHANGED <<channel_vars, total_destroyed_, moved>>

\* MailboxBroker::GetStats(), lines 161-164: the two registry figures.
GetStats ==
    [active_channels |-> Cardinality({name \in Names : Contains(name)}),
     total_channels_created |-> total_created_]

\* HasChannel, line 114: std::shared_lock lock(registry_mutex_).
HasChannel(t, name) ==
    /\ bt[t].pc = "idle"
    /\ CanLockShared
    /\ registry_mutex_' = [registry_mutex_ EXCEPT !.shared = @ \cup {t}]
    /\ bt' = [bt EXCEPT ![t] = [BrokerIdle EXCEPT !.pc = "has_contains",
                                                  !.op = "HasChannel", !.name = name]]
    /\ UNCHANGED <<channel_vars, channels_, total_created_, total_destroyed_, queues, moved>>

\* HasChannel, line 117: return channels_.contains(name).
HasChannelContains(t) ==
    /\ bt[t].pc = "has_contains"
    /\ BReturn(t, IF Contains(bt[t].name) THEN "true" ELSE "false", NoQueue)
    /\ registry_mutex_' = [registry_mutex_ EXCEPT !.shared = @ \ {t}]
    /\ UNCHANGED <<channel_vars, channels_, total_created_, total_destroyed_, queues, moved>>

\* RemoveChannel, line 122: std::unique_lock lock(registry_mutex_).
RemoveChannel(t, name) ==
    /\ bt[t].pc = "idle"
    /\ CanLockExclusive
    /\ registry_mutex_' = [registry_mutex_ EXCEPT !.exclusive = t]
    /\ bt' = [bt EXCEPT ![t] = [BrokerIdle EXCEPT !.pc = "rm_find",
                                                  !.op = "RemoveChannel", !.name = name]]
    /\ UNCHANGED <<channel_vars, channels_, total_created_, total_destroyed_, queues, moved>>

\* RemoveChannel, lines 125-131: find; not found -> false; else load
\* producer_alive.
RemoveFind(t) ==
    /\ bt[t].pc = "rm_find"
    /\ IF ~Contains(bt[t].name)
       THEN /\ BReturn(t, "false", NoQueue)
            /\ registry_mutex_' = Unlocked
       ELSE /\ bt' = [bt EXCEPT ![t].pc = "rm_consumer",
                                ![t].q = channels_[bt[t].name],
                                ![t].producer_alive = ProducerAliveOf(channels_[bt[t].name])]
            /\ UNCHANGED registry_mutex_
    /\ UNCHANGED <<channel_vars, channels_, total_created_, total_destroyed_, queues, moved>>

\* RemoveChannel, lines 132-143: load consumer_alive; a flag that is set ->
\* false; else erase, total_destroyed_++, true.
RemoveErase(t) ==
    /\ bt[t].pc = "rm_consumer"
    /\ IF bt[t].producer_alive \/ ConsumerAliveOf(bt[t].q)
       THEN /\ BReturn(t, "false", NoQueue)
            /\ UNCHANGED <<channels_, total_destroyed_>>
       ELSE /\ channels_' = [channels_ EXCEPT ![bt[t].name] = NoQueue]
            /\ total_destroyed_' = total_destroyed_ + 1
            /\ BReturn(t, "true", NoQueue)
    /\ registry_mutex_' = Unlocked
    /\ UNCHANGED <<channel_vars, total_created_, queues, moved>>

\* Shutdown, line 172: std::unique_lock lock(registry_mutex_); the loop of
\* lines 177-185 will visit every entry of channels_.
Shutdown(t) ==
    /\ bt[t].pc = "idle"
    /\ CanLockExclusive
    /\ registry_mutex_' = [registry_mutex_ EXCEPT !.exclusive = t]
    /\ bt' = [bt EXCEPT ![t] = [BrokerIdle EXCEPT !.pc = "sd_loop", !.op = "Shutdown",
                                   !.todo = {n \in Names : Contains(n)},
                                   !.start_channels = channels_]]
    /\ UNCHANGED <<channel_vars, channels_, total_created_, total_destroyed_, queues, moved>>

\* Shutdown, line 177: the next entry, in the unordered_map's order (any);
\* after the last one the lock is released and the call returns.
ShutdownLoop(t) ==
    /\ bt[t].pc = "sd_loop"
    /\ IF bt[t].todo = {}
       THEN /\ BReturn(t, "void", NoQueue)
            /\ registry_mutex_' = Unlocked
       ELSE /\ \E n \in bt[t].todo :
                   bt' = [bt EXCEPT ![t].pc = "sd_producer", ![t].name = n,
                                    ![t].q = channels_[n], ![t].todo = @ \ {n}]
            /\ UNCHANGED registry_mutex_
    /\ UNCHANGED <<channel_vars, channels_, total_created_, total_destroyed_, queues, moved>>

\* Shutdown, line 179: queue->producer_alive.store(false).
ShutdownProducerAlive(t) ==
    /\ bt[t].pc = "sd_producer"
    /\ IF bt[t].q = TheQueue
       THEN producer_alive' = FALSE /\ UNCHANGED queues
       ELSE queues' = [queues EXCEPT ![bt[t].q].producer_alive = FALSE] /\
            UNCHANGED producer_alive
    /\ BGoto(t, "sd_consumer")
    /\ UNCHANGED <<write_index, read_index, consumer_alive, buffer, producer_vars,
                   consumer_vars, committed, broker_vars, moved>>

\* Shutdown without the store to consumer_alive (line 180).
ShutdownConsumerAliveSkipped(t) ==
    /\ bt[t].pc = "sd_consumer"
    /\ BGoto(t, "sd_notify")
    /\ UNCHANGED <<channel_vars, broker_vars, queues, moved>>

\* Shutdown, line 180: queue->consumer_alive.store(false).
ShutdownConsumerAlive(t) ==
    /\ bt[t].pc = "sd_consumer"
    /\ IF bt[t].q = TheQueue
       THEN consumer_alive' = FALSE /\ UNCHANGED queues
       ELSE queues' = [queues EXCEPT ![bt[t].q].consumer_alive = FALSE] /\
            UNCHANGED consumer_alive
    /\ BGoto(t, "sd_notify")
    /\ UNCHANGED <<write_index, read_index, producer_alive, buffer, producer_vars,
                   consumer_vars, committed, broker_vars, moved>>

\* Shutdown, lines 183-184: write_index.notify_one() wakes a consumer parked
\* in write_index.wait; read_index.notify_one() finds no waiter (nothing
\* waits on read_index).
ShutdownNotify(t) ==
    /\ bt[t].pc = "sd_notify"
    /\ IF bt[t].q = TheQueue THEN cl' = NotifyWriteIndex(cl) ELSE UNCHANGED cl
    /\ BGoto(t, "sd_loop")
    /\ UNCHANGED <<queue_vars, producer_vars, statistics, views, popped, committed,
                   broker_vars, queues, moved>>

\* The caller has the broker call's result and goes on.
BrokerResume(t) ==
    /\ bt[t].pc = "returned"
    /\ bt' = [bt EXCEPT ![t] = BrokerIdle]
    /\ UNCHANGED <<channel_vars, broker_vars, queues, moved>>

\* ~ProducerHandle / ~ConsumerHandle of a later queue: the flag is stored
\* false (the notify finds no waiter: nothing blocks on these queues).
DestroyProducerOf(q) ==
    /\ queues[q].producer_handle
    /\ queues' = [queues EXCEPT ![q].producer_handle = FALSE, ![q].producer_alive = FALSE]
    /\ UNCHANGED <<channel_vars, broker_vars, bt, moved>>

DestroyConsumerOf(q) ==
    /\ queues[q].consumer_handle
    /\ queues' = [queues EXCEPT ![q].consumer_handle = FALSE, ![q].consumer_alive = FALSE]
    /\ UNCHANGED <<channel_vars, broker_vars, bt, moved>>

\* ProducerHandle::Capacity / MaxMessageSize / GetConfig (lines 310-330) and
\* the same of ConsumerHandle (lines 117-136): the fields of the queue.
Capacity(q) == queues[q].capacity
MaxMessageSize(q) == queues[q].max_message_size
GetConfig(q) == [capacity |-> queues[q].capacity,
                 max_message_size |-> queues[q].max_message_size]

\* ------------------------------------------------------------------------
\* The registry: threads that call RequestChannel, HasChannel, RemoveChannel
\* and Shutdown, and the owners of the handles destroying them.
\* ------------------------------------------------------------------------

\* Configurations the callers of this specification ask for.
RegistryConfigs == {DefaultConfig}

BrokerStep(t) ==
    \/ BrokerResume(t)
    \/ \E name \in Names, config \in RegistryConfigs : RequestChannel(t, name, config)
    \/ RequestLock(t)
    \/ RequestCheck(t)
    \/ \E allocated \in BOOLEAN : RequestCreate(t, allocated)
    \/ \E name \in Names : HasChannel(t, name)
    \/ HasChannelContains(t)
    \/ \E name \in Names : RemoveChannel(t, name)
    \/ RemoveFind(t)
    \/ RemoveErase(t)
    \/ Shutdown(t)
    \/ ShutdownLoop(t)
    \/ ShutdownProducerAlive(t)
    \/ ShutdownConsumerAlive(t)
    \/ ShutdownNotify(t)

HandleStep ==
    \/ DestroyProducer
    \/ DestroyProducerNotify
    \/ DestroyConsumer
    \/ \E q \in LaterQueues : DestroyProducerOf(q)
    \/ \E q \in LaterQueues : DestroyConsumerOf(q)

RegistryNext == (\E t \in BrokerThreads : BrokerStep(t)) \/ HandleStep

RegistrySpec == Init /\ [][RegistryNext]_vars

\* ------------------------------------------------------------------------
\* The registry left to itself: the handles are destroyed and callers keep
\* asking HasChannel and RequestChannel; nobody calls RemoveChannel or
\* Shutdown.  Every thread that can take a step eventually takes one (weak
\* fairness per thread and for the running destructor).
\* ------------------------------------------------------------------------

CleanupBrokerStep(t) ==
    \/ BrokerResume(t)
    \/ \E name \in Names : RequestChannel(t, name, DefaultConfig)
    \/ RequestLock(t)
    \/ RequestCheck(t)
    \/ \E allocated \in BOOLEAN : RequestCreate(t, allocated)
    \/ \E name \in Names : HasChannel(t, name)
    \/ HasChannelContains(t)

CleanupNext == (\E t \in BrokerThreads : CleanupBrokerStep(t)) \/ HandleStep

CleanupSpec ==
    /\ Init
    /\ [][CleanupNext]_vars
    /\ \A t \in BrokerThreads : WF_vars(CleanupBrokerStep(t))
    /\ WF_vars(DestroyProducerNotify)

\* ------------------------------------------------------------------------
\* Shutdown next to a channel in use: TryPush and TryPop on channel "a",
\* RequestChannel for a second channel, and Shutdown.  A caller that has
\* Shutdown's return makes no further broker call.
\* ------------------------------------------------------------------------

\* The steps of Shutdown after it has the lock.
ShutdownBody(t) ==
    \/ ShutdownLoop(t)
    \/ ShutdownProducerAlive(t)
    \/ ShutdownConsumerAlive(t)
    \/ ShutdownNotify(t)

ShutdownBrokerStep(t) ==
    \/ bt[t].op = "RequestChannel" /\ BrokerResume(t)
    \/ RequestChannel(t, "b", DefaultConfig)
    \/ RequestLock(t)
    \/ RequestCheck(t)
    \/ \E allocated \in BOOLEAN : RequestCreate(t, allocated)
    \/ Shutdown(t)
    \/ ShutdownBody(t)

ShutdownProducerStep ==
    \/ ProducerResume
    \/ \E n \in 1..max_message_size : TryPush(n)
    \/ PushReserve
    \/ ReserveLoad
    \/ PushCopy
    \/ PushCommit
    \/ CommitStore
    \/ CommitNotify

ShutdownConsumerStep ==
    \/ ConsumerResume
    \/ TryPop
    \/ TryPopLoad
    \/ TryPopRead
    \/ TryPopStore
    \/ TryPopNotify

ShutdownNext ==
    \/ \E t \in BrokerThreads : ShutdownBrokerStep(t)
    \/ ShutdownProducerStep
    \/ ShutdownConsumerStep

ShutdownSpec == Init /\ [][ShutdownNext]_vars

\* ------------------------------------------------------------------------
\* The channel after Shutdown: before Shutdown has returned the producer
\* uses Reserve/Commit and the consumer TryPop; once it has returned they
\* call every push and pop operation (with the flags false no call reaches
\* the waiting loops of BlockingPush and BlockingPop).  The caller of
\* Shutdown makes no further broker call.
\* ------------------------------------------------------------------------

AfterShutdownProducerStep ==
    \/ ProducerResume
    \/ \E n \in 1..max_message_size : Reserve(n)
    \/ ReserveLoad
    \/ \E n \in 1..max_message_size : WritePayload(n)
    \/ \E n \in 1..max_message_size : Commit(n)
    \/ CommitStore
    \/ CommitNotify
    \/ ShutdownReturned /\ \E n \in 1..max_message_size : TryPush(n)
    \/ ShutdownReturned /\
           \E n \in 1..max_message_size, expired \in BOOLEAN : BlockingPush(n, expired)
    \/ BlockingPushAlive
    \/ ShutdownReturned /\ \E sizes \in BatchSizes : BatchPush(sizes)

AfterShutdownConsumerStep ==
    \/ ConsumerResume
    \/ TryPop
    \/ TryPopLoad
    \/ TryPopRead
    \/ TryPopStore
    \/ TryPopNotify
    \/ ShutdownReturned /\ \E timeout \in Timeouts : BlockingPop(timeout)
    \/ ShutdownReturned /\
           \E max_count \in 0..MaxBatch, timeout \in Timeouts : BatchPop(max_count, timeout)
    \/ BatchPopBlock
    \/ BatchPopRefresh
    \/ BatchPopLoad
    \/ BatchPopRead
    \/ BatchPopStore
    \/ BatchPopEnd

AfterShutdownNext ==
    \/ \E t \in BrokerThreads : Shutdown(t) \/ ShutdownBody(t)
    \/ AfterShutdownProducerStep
    \/ AfterShutdownConsumerStep

AfterShutdownSpec == Init /\ [][AfterShutdownNext]_vars

\* ------------------------------------------------------------------------
\* Shutdown while blocking calls are in progress: the fair scheduling of the
\* blocking calls above, and a thread that calls Shutdown, which runs to its
\* end once it has the lock.  The caller of Shutdown makes no further broker
\* call.
\* ------------------------------------------------------------------------

FairShutdownNext == FairNext \/ \E t \in BrokerThreads : Shutdown(t) \/ ShutdownBody(t)

\* The steps of a Shutdown that has the lock.
ShutdownRuns == \E t \in BrokerThreads : ShutdownBody(t)

FairShutdownSpec ==
    /\ Init
    /\ [][FairShutdownNext]_vars
    /\ WF_vars(ProducerRuns)
    /\ WF_vars(ConsumerRuns)
    /\ WF_vars(ShutdownRuns)

\* ------------------------------------------------------------------------
\* Configurations: one thread requests channels with every configuration of
\* ConfigInputs; the handles of the channel it gets are destroyed later.
\* ------------------------------------------------------------------------

ProbeValues == UNION {{2 ^ k - 1, 2 ^ k, 2 ^ k + 1} : k \in 3..MaxProbeBits}

\* 1000, 4 and 1000000 are the capacities of the documentation's examples.
ConfigCapacities == (0..MaxSmallCapacity) \cup ProbeValues \cup {1000, 1000000}
ConfigMessageSizes == {0, 1, 63, 64, 65, 1000} \cup {2 ^ k + d : k \in {12, 20}, d \in {-1, 0, 1}}

ConfigInputs == [capacity : ConfigCapacities, max_message_size : ConfigMessageSizes]

ConfigCaller == 1

ConfigNext ==
    \/ BrokerResume(ConfigCaller)
    \/ \E name \in Names, config \in ConfigInputs : RequestChannel(ConfigCaller, name, config)
    \/ RequestLock(ConfigCaller)
    \/ RequestCheck(ConfigCaller)
    \/ \E allocated \in BOOLEAN : RequestCreate(ConfigCaller, allocated)
    \/ \E q \in LaterQueues : DestroyProducerOf(q)
    \/ \E q \in LaterQueues : DestroyConsumerOf(q)

ConfigSpec == Init /\ [][ConfigNext]_vars

\* ------------------------------------------------------------------------
\* Moved-from handles (ProducerHandle and ConsumerHandle have defaulted move
\* operations over std::unique_ptr<Impl> pimpl_)
\* ------------------------------------------------------------------------

\* ProducerHandle target(std::move(handle)), producer_handle.cpp line 353:
\* the target takes pimpl_ and goes on as the channel's producer endpoint;
\* the source object stays behind with pimpl_ == nullptr.
MoveProducer ==
    /\ pl.pc = "idle"
    /\ moved.producer = "none"
    /\ moved' = [moved EXCEPT !.producer = "empty"]
    /\ UNCHANGED <<channel_vars, broker_vars, queues, bt>>

\* ConsumerHandle target(std::move(handle)), consumer_handle.cpp line 151.
MoveConsumer ==
    /\ cl.pc = "idle"
    /\ moved.consumer = "none"
    /\ moved' = [moved EXCEPT !.consumer = "empty"]
    /\ UNCHANGED <<channel_vars, broker_vars, queues, bt>>

\* ~ProducerHandle of the moved-from object, lines 340-351: pimpl_ is null,
\* the body is skipped.
DestroyMovedProducer ==
    /\ pl.pc = "idle"
    /\ moved.producer = "empty"
    /\ moved' = [moved EXCEPT !.producer = "destroyed"]
    /\ UNCHANGED <<channel_vars, broker_vars, queues, bt>>

\* ~ConsumerHandle of the moved-from object, lines 142-149.
DestroyMovedConsumer ==
    /\ cl.pc = "idle"
    /\ moved.consumer = "empty"
    /\ moved' = [moved EXCEPT !.consumer = "destroyed"]
    /\ UNCHANGED <<channel_vars, broker_vars, queues, bt>>

\* The calls made on a moved-from handle, and what the documentation says
\* each returns.
MovedProducerCalls == {"TryPush", "BlockingPush", "Reserve", "Commit"}
MovedConsumerCalls == {"TryPop", "BlockingPop"}
InactiveResult(op) ==
    CASE op = "Reserve" -> "nullopt"
      [] op = "Commit" -> "false"
      [] OTHER -> "ChannelClosed"

\* A method called on a moved-from handle evaluates pimpl_->queue_ (TryPush
\* line 205, BlockingPush line 155, Reserve line 66, Commit line 108; TryPop
\* line 66 of consumer_handle.cpp) with pimpl_ == nullptr, with no test
\* before it: undefined behaviour.  The process is killed by the access to
\* address 0, or the build goes on and returns a value.
MovedOutcomes(op) == {"crash", InactiveResult(op)}

\* A crash kills the process: neither thread takes another step.
CallMovedProducer(op, outcome) ==
    /\ pl.pc = "idle"
    /\ moved.producer = "empty"
    /\ IF outcome = "crash"
       THEN /\ pl' = [PBegin(pl, op) EXCEPT !.on_moved = TRUE, !.status = outcome,
                                            !.pc = "crashed"]
            /\ cl' = [cl EXCEPT !.pc = "crashed"]
       ELSE /\ pl' = [PBegin(pl, op) EXCEPT !.on_moved = TRUE, !.status = outcome,
                                            !.pc = "returned"]
            /\ UNCHANGED cl
    /\ UNCHANGED <<queue_vars, reserved_slot_, messages_sent_, bytes_sent_,
                   failed_pushes_, staged, next_id, statistics, views, popped,
                   committed, other_vars>>

CallMovedConsumer(op, outcome) ==
    /\ cl.pc = "idle"
    /\ moved.consumer = "empty"
    /\ IF outcome = "crash"
       THEN /\ cl' = [CBegin(cl, op) EXCEPT !.on_moved = TRUE, !.status = outcome,
                                            !.pc = "crashed"]
            /\ pl' = [pl EXCEPT !.pc = "crashed"]
       ELSE /\ cl' = [CBegin(cl, op) EXCEPT !.on_moved = TRUE, !.status = outcome,
                                            !.pc = "returned"]
            /\ UNCHANGED pl
    /\ views' = <<>>
    /\ UNCHANGED <<queue_vars, reserved_slot_, messages_sent_, bytes_sent_,
                   failed_pushes_, staged, next_id, statistics, popped,
                   committed, other_vars>>

MoveProducerStep ==
    \/ ProducerResume
    \/ \E n \in 1..max_message_size : TryPush(n)
    \/ PushReserve
    \/ ReserveLoad
    \/ PushCopy
    \/ PushCommit
    \/ CommitStore
    \/ CommitNotify
    \/ MoveProducer
    \/ \E op \in MovedProducerCalls : \E outcome \in MovedOutcomes(op) :
           CallMovedProducer(op, outcome)
    \/ DestroyMovedProducer
    \/ DestroyProducer
    \/ DestroyProducerNotify

MoveConsumerStep ==
    \/ ConsumerResume
    \/ TryPop
    \/ TryPopLoad
    \/ TryPopRead
    \/ TryPopStore
    \/ TryPopNotify
    \/ MoveConsumer
    \/ \E op \in MovedConsumerCalls : \E outcome \in MovedOutcomes(op) :
           CallMovedConsumer(op, outcome)
    \/ DestroyMovedConsumer
    \/ DestroyConsumer

MoveNext == MoveProducerStep \/ MoveConsumerStep

MoveSpec == Init /\ [][MoveNext]_vars

\* ------------------------------------------------------------------------
\* Indices: every operation of both handles (Reserve, Commit, Rollback,
\* TryPush, BlockingPush and BatchPush with valid and invalid sizes against
\* TryPop, BlockingPop with a finite timeout and BatchPop without one), both
\* destructors, and a thread that makes one call of RemoveChannel("a") or of
\* Shutdown at any moment.  The producer creates IndexMessages messages.
\* ------------------------------------------------------------------------

IndexMessages == 2

\* The step takes no message beyond the last one.
IndexCapped == next_id' <= IndexMessages + 1

IndexProducerStep ==
    \/ ProducerResume
    \/ \E n \in 1..max_message_size : Reserve(n)
    \/ ReserveLoad
    \/ \E n \in 1..max_message_size : WritePayload(n) /\ IndexCapped
    \/ \E n \in 1..max_message_size : Commit(n)
    \/ CommitStore
    \/ CommitNotify
    \/ Rollback
    \/ \E n \in 0..max_message_size : TryPush(n) /\ IndexCapped
    \/ PushReserve
    \/ PushCopy
    \/ PushCommit
    \/ \E n \in 0..max_message_size, expired \in BOOLEAN :
           BlockingPush(n, expired) /\ IndexCapped
    \/ BlockingPushAlive
    \/ \E passed \in BOOLEAN : BlockingPushTimeout(passed)
    \/ BlockingPushSpin
    \/ \E sizes \in SeqsUpTo(0..max_message_size, MaxBatch) :
           BatchPush(sizes) /\ IndexCapped
    \/ BatchPushCheck
    \/ BatchPushWrite
    \/ BatchPushCopy
    \/ BatchPushStore
    \/ BatchPushEnd
    \/ DestroyProducer
    \/ DestroyProducerNotify

IndexConsumerStep ==
    \/ ConsumerResume
    \/ TryPop
    \/ TryPopLoad
    \/ TryPopRead
    \/ TryPopStore
    \/ TryPopNotify
    \/ BlockingPop("finite")
    \/ PopTryPop
    \/ \E passed \in BOOLEAN : BlockingPopTimeout(passed)
    \/ BlockingPopSpin
    \/ \E max_count \in 0..MaxBatch : BatchPop(max_count, "zero")
    \/ BatchPopLoad
    \/ BatchPopRead
    \/ BatchPopStore
    \/ BatchPopEnd
    \/ DestroyConsumer

IndexCaller == 1

IndexBrokerStep ==
    \/ RemoveChannel(IndexCaller, "a")
    \/ RemoveFind(IndexCaller)
    \/ RemoveErase(IndexCaller)
    \/ Shutdown(IndexCaller)
    \/ ShutdownBody(IndexCaller)

IndexNext == IndexProducerStep \/ IndexConsumerStep \/ IndexBrokerStep

IndexSpec == Init /\ [][IndexNext]_vars

\* ------------------------------------------------------------------------
\* Deadlines: BlockingPush (also behind the user's own reservation) against
\* BlockingPop and BatchPop with a timeout, the clock passing the deadline of
\* a call in progress at any moment, both destructors.
\* ------------------------------------------------------------------------

\* steady_clock::now() reaches the deadline computed at line 160 while the
\* BlockingPush is in progress: every later check (line 187) finds it passed.
ProducerDeadlinePasses ==
    /\ pl.op = "BlockingPush"
    /\ pl.pc \notin {"idle", "returned", "dead"}
    /\ ~pl.expired
    /\ pl' = [pl EXCEPT !.expired = TRUE]
    /\ UNCHANGED <<queue_vars, reserved_slot_, messages_sent_, bytes_sent_,
                   failed_pushes_, staged, next_id, consumer_vars, committed, other_vars>>

\* The same for the deadline of BlockingPop (consumer_handle.cpp line 156,
\* checked at line 199), called by the user or by BatchPop.
ConsumerDeadlinePasses ==
    /\ cl.op \in {"BlockingPop", "BatchPop"}
    /\ cl.timeout = "finite"
    /\ cl.pc \notin {"idle", "returned", "dead", "bat_block"}
    /\ ~cl.expired
    /\ cl' = [cl EXCEPT !.expired = TRUE]
    /\ UNCHANGED <<queue_vars, producer_vars, statistics, views, popped, committed,
                   other_vars>>

DeadlineProducerStep ==
    \/ ProducerResume
    \/ \E n \in 1..max_message_size : Reserve(n)
    \/ \E n \in 0..max_message_size, expired \in BOOLEAN : BlockingPush(n, expired)
    \/ BlockingPushAlive
    \/ PushReserve
    \/ ReserveLoad
    \/ PushCopy
    \/ PushCommit
    \/ CommitStore
    \/ CommitNotify
    \/ \E passed \in BOOLEAN : BlockingPushTimeout(passed)
    \/ BlockingPushSpin
    \/ DestroyProducer
    \/ DestroyProducerNotify

DeadlineConsumerStep ==
    \/ ConsumerResume
    \/ \E timeout \in {"zero", "finite"} : BlockingPop(timeout)
    \/ PopTryPop
    \/ TryPopLoad
    \/ TryPopRead
    \/ TryPopStore
    \/ TryPopNotify
    \/ \E passed \in BOOLEAN : BlockingPopTimeout(passed)
    \/ BlockingPopSpin
    \/ \E max_count \in 0..MaxBatch : BatchPop(max_count, "finite")
    \/ BatchPopBlock
    \/ BatchPopRefresh
    \/ BatchPopLoad
    \/ BatchPopRead
    \/ BatchPopStore
    \/ BatchPopEnd
    \/ DestroyConsumer

DeadlineNext ==
    \/ DeadlineProducerStep
    \/ DeadlineConsumerStep
    \/ ProducerDeadlinePasses
    \/ ConsumerDeadlinePasses

\* Each thread that is inside a call keeps running; nothing obliges an idle
\* caller to call, and nothing obliges the clock to reach a deadline.
DeadlineSpec ==
    /\ Init
    /\ [][DeadlineNext]_vars
    /\ WF_vars(pl.pc \notin {"idle", "dead"} /\ DeadlineProducerStep)
    /\ WF_vars(cl.pc \notin {"idle", "dead"} /\ DeadlineConsumerStep)

\* ------------------------------------------------------------------------
\* The blocking calls alone, with the clock: a deadline check finds the
\* deadline passed exactly when the clock has passed it, which happens at any
\* moment of a call in progress.
\* ------------------------------------------------------------------------

WaitProducerStep ==
    \/ ProducerResume
    \/ \E n \in 1..max_message_size, expired \in BOOLEAN : BlockingPush(n, expired)
    \/ BlockingPushAlive
    \/ PushReserve
    \/ ReserveLoad
    \/ PushCopy
    \/ PushCommit
    \/ CommitStore
    \/ CommitNotify
    \/ BlockingPushTimeout(pl.expired)
    \/ BlockingPushSpin
    \/ DestroyProducer
    \/ DestroyProducerNotify

WaitConsumerStep ==
    \/ ConsumerResume
    \/ \E timeout \in {"zero", "finite"} : BlockingPop(timeout)
    \/ PopTryPop
    \/ TryPopLoad
    \/ TryPopRead
    \/ TryPopStore
    \/ TryPopNotify
    \/ BlockingPopTimeout(cl.expired)
    \/ BlockingPopSpin
    \/ DestroyConsumer

WaitNext ==
    \/ WaitProducerStep
    \/ WaitConsumerStep
    \/ ProducerDeadlinePasses
    \/ ConsumerDeadlinePasses

WaitSpec ==
    /\ Init
    /\ [][WaitNext]_vars
    /\ WF_vars(pl.pc \notin {"idle", "dead"} /\ WaitProducerStep)
    /\ WF_vars(cl.pc \notin {"idle", "dead"} /\ WaitConsumerStep)

\* ------------------------------------------------------------------------
\* Channel creation with every allocation that can fail: the queue, and the
\* Impl of either handle.  Callers request, look up and remove channels; the
\* handles of channel "a" are destroyed at any time.
\* ------------------------------------------------------------------------

AllocBrokerStep(t) ==
    \/ BrokerResume(t)
    \/ \E name \in Names, config \in RegistryConfigs : RequestChannel(t, name, config)
    \/ RequestLock(t)
    \/ RequestCheck(t)
    \/ \E allocated \in BOOLEAN : RequestCreate(t, allocated)
    \/ \E handle \in {"producer", "consumer"} : RequestHandlesFail(t, handle)
    \/ \E name \in Names : RemoveChannel(t, name)
    \/ RemoveFind(t)
    \/ RemoveErase(t)

AllocNext == (\E t \in BrokerThreads : AllocBrokerStep(t)) \/ HandleStep

AllocSpec == Init /\ [][AllocNext]_vars

\* ------------------------------------------------------------------------
\* Handles that end by being assigned over: handle = std::move(other) on the
\* handle of channel "a", next to the destructors, the copying calls and a
\* thread that calls RemoveChannel("a").
\* ------------------------------------------------------------------------

\* ProducerHandle::operator=(ProducerHandle&&) = default, line 354, on the
\* channel's producer handle: pimpl_ = std::move(other.pimpl_) deletes the
\* Impl the handle held.  Impl has no destructor of its own (lines 14-37):
\* its members are destroyed, the queue reference is dropped, and neither
\* producer_alive is stored nor write_index notified (that is done only by
\* ~ProducerHandle, which does not run).  The endpoint is gone.
OverwriteProducer ==
    /\ pl.pc = "idle"
    /\ pl' = [pl EXCEPT !.pc = "overwritten", !.op = "operator="]
    /\ UNCHANGED <<queue_vars, reserved_slot_, messages_sent_, bytes_sent_,
                   failed_pushes_, staged, next_id, consumer_vars, committed, other_vars>>

\* ConsumerHandle::operator=(ConsumerHandle&&) = default, line 152, on the
\* channel's consumer handle (Impl: consumer_handle.cpp lines 14-33).
OverwriteConsumer ==
    /\ cl.pc = "idle"
    /\ cl' = [cl EXCEPT !.pc = "overwritten", !.op = "operator="]
    /\ views' = <<>>
    /\ UNCHANGED <<queue_vars, producer_vars, statistics, popped, committed, other_vars>>

OverwriteProducerStep ==
    \/ ProducerResume
    \/ \E n \in 1..max_message_size : TryPush(n)
    \/ PushReserve
    \/ ReserveLoad
    \/ PushCopy
    \/ PushCommit
    \/ CommitStore
    \/ CommitNotify
    \/ DestroyProducer
    \/ DestroyProducerNotify
    \/ OverwriteProducer

OverwriteConsumerStep ==
    \/ ConsumerResume
    \/ TryPop
    \/ TryPopLoad
    \/ TryPopRead
    \/ TryPopStore
    \/ TryPopNotify
    \/ DestroyConsumer
    \/ OverwriteConsumer

OverwriteBrokerStep ==
    \/ BrokerResume(IndexCaller)
    \/ RemoveChannel(IndexCaller, "a")
    \/ RemoveFind(IndexCaller)
    \/ RemoveErase(IndexCaller)

OverwriteNext == OverwriteProducerStep \/ OverwriteConsumerStep \/ OverwriteBrokerStep

OverwriteSpec == Init /\ [][OverwriteNext]_vars

\* ------------------------------------------------------------------------
\* Claims
\* ------------------------------------------------------------------------

\* Messages written to the queue and not yet consumed.
Pending == write_index - read_index

IsPrefix(p, q) == Len(p) <= Len(q) /\ \A k \in 1..Len(p) : p[k] = q[k]

ProducerReturned(op) == pl.pc = "returned" /\ pl.op = op

ConsumerReturned == cl.pc = "returned"

\* C1: the messages the pops have returned so far are, in order and in
\* content, a prefix of the messages the producer has published so far.
C1_PopsArePrefixOfCommitted == IsPrefix(popped, committed)

\* C2: in every reachable state 0 <= write_index - read_index <= capacity - 1.
C2_PendingWithinCapacity == Pending >= 0 /\ Pending <= capacity - 1

\* C3: every view a pop has delivered had exactly the length and the bytes of
\* a message the producer published (n bytes pushed, or committed after a
\* reservation).
C3_DeliveredIsWhatWasWritten ==
    \A k \in 1..Len(popped) : \E j \in 1..Len(committed) : popped[k] = committed[j]

\* C4: when a pop call (TryPop, BlockingPop, BatchPop) returns ChannelClosed the
\* producer is gone and the queue is empty: write_index = read_index.
C4_ClosedOnlyWhenDrained ==
    (ConsumerReturned /\ cl.status = "ChannelClosed")
        => (~producer_alive /\ write_index = read_index)

\* C5: a TryPush, BlockingPush, Reserve or BatchPush that started after the
\* consumer was destroyed returns its failure (ChannelClosed for a valid size,
\* nullopt, 0) and has not advanced write_index, whether the queue is full or
\* not.
C5_ClosedCallsPublishNothing ==
    (pl.pc = "returned" /\ pl.started_dead) =>
        /\ pl.op \in {"TryPush", "BlockingPush", "Reserve", "BatchPush"}
              => write_index = pl.start_write
        /\ (pl.op \in {"TryPush", "BlockingPush"} /\ pl.valid)
              => pl.status = "ChannelClosed"
        /\ pl.op = "Reserve" => pl.status = "nullopt"
        /\ pl.op = "BatchPush" => pl.count = 0

\* C5 happens: a valid TryPush on a queue with room, started after the
\* consumer's destruction, has returned ChannelClosed.
C5_Witness ==
    /\ ProducerReturned("TryPush")
    /\ pl.started_dead
    /\ pl.valid
    /\ pl.status = "ChannelClosed"
    /\ ~IsQueueFull(write_index, read_index, capacity)

\* C6: a consumer parked in the infinite BlockingPop on an empty queue
\* eventually returns ChannelClosed once the producer has been destroyed.
C6_DestructionUnblocksPop ==
    (cl.pc = "parked" /\ ~producer_alive)
        ~> (ConsumerReturned /\ cl.status = "ChannelClosed")

\* C7: a BlockingPush that has found the queue full and waits (its deadline
\* check just said "not yet", it spins or is back at the top of its loop)
\* returns ChannelClosed with write_index where it was at the start of the
\* call, once the consumer is destroyed and the queue is still full.
C7_DestructionUnblocksPush ==
    (/\ pl.op = "BlockingPush"
     /\ pl.pc \in {"bp_spin", "bp_alive"}
     /\ pl.obs = capacity - 1
     /\ ~consumer_alive
     /\ IsQueueFull(write_index, read_index, capacity))
        ~> (/\ ProducerReturned("BlockingPush")
            /\ pl.status = "ChannelClosed"
            /\ write_index = pl.start_write
            /\ IsQueueFull(write_index, read_index, capacity))

\* C7 happens: a BlockingPush that started with the consumer alive and saw the
\* queue full has returned ChannelClosed, the queue still being full.
C7_Witness ==
    /\ ProducerReturned("BlockingPush")
    /\ ~pl.started_dead
    /\ pl.obs = capacity - 1
    /\ pl.status = "ChannelClosed"
    /\ write_index = pl.start_write
    /\ IsQueueFull(write_index, read_index, capacity)

\* C8: a TryPush that returns QueueFull observed exactly capacity - 1 pending
\* messages.
C8_QueueFullMeansFull ==
    (ProducerReturned("TryPush") /\ pl.status = "QueueFull")
        => pl.obs = capacity - 1

\* C9: with a live consumer and no outstanding reservation, a TryPush of a
\* valid size succeeds exactly when it finds fewer than capacity - 1 pending
\* messages.
C9_SucceedsIffRoom ==
    (/\ ProducerReturned("TryPush")
     /\ pl.valid
     /\ consumer_alive
     /\ reserved_slot_ = nullopt)
        => ((pl.status = "Success") <=> (pl.obs >= 0 /\ pl.obs < capacity - 1))

\* C10: while the consumer's caller holds the views of its last pop (until its
\* next pop call), no step writes a slot that backs one of them.
C10_ViewsNotOverwritten ==
    [][\A k \in 1..Len(views) : buffer'[views[k].slot] = buffer[views[k].slot]]_vars

\* ------------------------------------------------------------------------
\* Reservations (C11-C14)
\* ------------------------------------------------------------------------

\* The slots of the pending messages, read_index up to write_index.
PendingSlots == {GetSlotIndex(i, capacity) : i \in read_index..(write_index - 1)}

\* A step of the producer inside a call of op (its first step included).
CallStep(op) == pl' # pl /\ pl'.op = op

\* The first step of a producer call of op.
CallStarts(op) == pl.pc = "idle" /\ pl'.pc # "idle" /\ pl'.op = op

\* The caller writes through its ReserveResult.
WriteStep == pl' = pl /\ next_id' # next_id

\* C11: a Reserve that is not committed is invisible: no step of a Reserve
\* call, no write through the reservation and no Rollback changes
\* write_index, read_index, a liveness flag, the contents of a pending slot
\* or anything the consumer sees, and Rollback leaves the producer without
\* reservation and with its counters as they were.
C11_UncommittedReserveInvisible ==
    [][(CallStep("Reserve") \/ WriteStep \/ CallStep("Rollback")) =>
          /\ UNCHANGED <<write_index, read_index, producer_alive, consumer_alive>>
          /\ \A s \in PendingSlots : buffer'[s] = buffer[s]
          /\ UNCHANGED consumer_vars
          /\ CallStep("Rollback") =>
                 /\ reserved_slot_' = nullopt
                 /\ UNCHANGED <<messages_sent_, bytes_sent_, failed_pushes_>>]_vars

\* C12: a ReserveResult that went out of scope without Commit has rolled its
\* reservation back: whenever the producer is between calls and its caller
\* holds no ReserveResult, there is no outstanding reservation.
C12_DroppedReservationRolledBack ==
    (pl.pc = "idle" /\ ~staged.held) => reserved_slot_ = nullopt

\* C13: at most one reservation.  A Reserve called while a reservation is
\* outstanding returns nullopt at once and leaves the reservation, the
\* ReserveResult, the queue (write_index, slot contents) and the published
\* messages as they were; a Commit that returns true and a Rollback leave no
\* reservation behind; and a Reserve of a valid size on a live channel
\* without outstanding reservation fails only when it saw the queue full.
C13_AtMostOneReservation ==
    [][/\ (CallStarts("Reserve") /\ reserved_slot_ # nullopt) =>
             /\ pl'.pc = "returned" /\ pl'.status = "nullopt"
             /\ UNCHANGED <<reserved_slot_, staged, queue_vars, committed>>
       /\ (pl.pc # "returned" /\ pl'.pc = "returned" /\
             (pl'.status = "true" \/ pl'.op = "Rollback")) =>
             reserved_slot_' = nullopt
       /\ (pl.pc # "returned" /\ pl'.pc = "returned" /\ pl'.op = "Reserve" /\
             pl'.status = "nullopt" /\ pl'.valid /\ consumer_alive /\
             reserved_slot_ = nullopt) =>
             IsQueueFull(write_index, read_index, capacity)]_vars

\* A Reserve of a valid size was refused on a live channel with room, for
\* the outstanding reservation alone, which the caller still holds.
C13_Witness ==
    /\ pl.pc = "returned" /\ pl.op = "Reserve" /\ pl.status = "nullopt"
    /\ pl.valid /\ consumer_alive
    /\ ~IsQueueFull(write_index, read_index, capacity)
    /\ reserved_slot_ # nullopt /\ staged.held

\* C14: a Commit without reservation or with an invalid size returns false
\* in its first step and changes nothing but the caller's result: queue,
\* slots, counters, reservation and ReserveResult are as before.  A Commit
\* with a valid size and a reservation goes on, returns true, and from its
\* start to its return write_index has advanced by exactly one, one message
\* was published, messages_sent_ counted one and the reservation is gone.
C14_RejectedCommitChangesNothing ==
    [][/\ (CallStarts("Commit") /\ (~pl'.valid \/ reserved_slot_ = nullopt)) =>
             /\ pl'.pc = "returned" /\ pl'.status = "false"
             /\ UNCHANGED <<queue_vars, reserved_slot_, messages_sent_, bytes_sent_,
                            failed_pushes_, staged, next_id, consumer_vars, committed>>
       /\ (CallStarts("Commit") /\ pl'.valid /\ reserved_slot_ # nullopt) =>
             pl'.pc = "commit_store"
       /\ (pl.op = "Commit" /\ pl.pc = "commit_store" /\ pl' # pl) =>
             /\ write_index' = pl.start_write + 1
             /\ Len(committed') = Len(committed) + 1
       /\ (pl.op = "Commit" /\ pl.pc = "commit_notify" /\ pl' # pl) =>
             /\ pl'.pc = "returned" /\ pl'.status = "true"
             /\ write_index' = pl.start_write + 1
             /\ messages_sent_' = messages_sent_ + 1
             /\ reserved_slot_' = nullopt]_vars

\* A Commit with an invalid size has returned false while the reservation,
\* with the bytes written through it, is still outstanding.
C14_Witness ==
    /\ pl.pc = "returned" /\ pl.op = "Commit" /\ pl.status = "false"
    /\ ~pl.valid
    /\ reserved_slot_ # nullopt /\ staged.held /\ staged.bytes # <<>>

\* ------------------------------------------------------------------------
\* Batches (C15-C20)
\* ------------------------------------------------------------------------

\* C15: BatchPush is fail-fast on size.  A BatchPush whose batch holds a
\* message of invalid size, at whatever place, returns 0 in its first step:
\* write_index, every slot, messages_sent_, bytes_sent_ and everything else
\* are unchanged, and no notify is issued (the consumer thread is untouched).
C15_BatchPushFailFast ==
    [][(CallStarts("BatchPush") /\ ~pl'.valid) =>
          /\ pl'.pc = "returned" /\ pl'.status = "count" /\ pl'.count = 0
          /\ pl'.notifies = 0
          /\ UNCHANGED <<queue_vars, reserved_slot_, messages_sent_, bytes_sent_,
                         failed_pushes_, staged, next_id, consumer_vars, committed>>]_vars

\* A BatchPush has returned whose first message was valid and whose second
\* was not, on a live channel with room.
C15_Witness ==
    /\ pl.pc = "returned" /\ pl.op = "BatchPush"
    /\ pl.invalid_at = 2
    /\ consumer_alive /\ ~IsQueueFull(write_index, read_index, capacity)

\* The smaller of two numbers.
Min(a, b) == IF a < b THEN a ELSE b

\* C16: a BatchPush of valid messages on a live channel returns a count k
\* between 0 and the length of the batch; write_index has advanced by
\* exactly k; the last k published messages are the first k messages of the
\* batch, in order; k is below the length only if the last full test saw
\* capacity - 1 pending messages; and when no pop moved read_index during
\* the call, k is the smaller of the length and the free slots at the start.
C16_BatchPushPublishesPrefix ==
    (ProducerReturned("BatchPush") /\ pl.valid /\ consumer_alive) =>
        LET k == pl.count
            len == Len(pl.batch)
            pending == pl.start_write - pl.start_read
            free == IF pending < capacity - 1 THEN (capacity - 1) - pending ELSE 0
        IN /\ k \in 0..len
           /\ write_index = pl.start_write + k
           /\ Len(committed) >= k
           /\ \A j \in 1..k : committed[Len(committed) - k + j] = pl.batch[j]
           /\ k < len => pl.obs = capacity - 1
           /\ read_index = pl.start_read => k = Min(len, free)

\* C17: one BatchPush call notifies write_index at most once.  No step of
\* the call that stores write_index has a notify before or in it; the
\* notify comes in the call's last step, after every store, and only when
\* something was pushed; a call that pushed nothing issues none.
C17_BatchPushNotifiesOnce ==
    [][(pl' # pl /\ pl'.op = "BatchPush") =>
          /\ write_index' # write_index => (pl.notifies = 0 /\ pl'.notifies = 0)
          /\ pl'.notifies # 0 =>
                 /\ pl'.notifies = 1
                 /\ pl'.pc = "returned" /\ pl'.count > 0
                 /\ write_index' = write_index
          /\ (pl'.pc = "returned" /\ pl'.count = 0) =>
                 (pl'.notifies = 0 /\ cl' = cl)]_vars

\* A BatchPush has returned 2 (a pop made room between its two stores)
\* with its one notify.
C17_Witness ==
    /\ ProducerReturned("BatchPush")
    /\ pl.count = 2 /\ pl.notifies = 1

\* C18: one BatchPop call notifies read_index at most once, whatever its
\* max_count and its timeout.
C18_BatchPopNotifiesOnce ==
    (ConsumerReturned /\ cl.op = "BatchPop") => cl.notifies <= 1

\* C19 as stated, for every max_count: the status is Success exactly when
\* a message was consumed; with none consumed it is Empty only if the
\* producer was alive when the call started, ChannelClosed only if the
\* producer is dead, Timeout only after a blocking prefix.
C19_StatusForEveryMaxCount ==
    (ConsumerReturned /\ cl.op = "BatchPop") =>
        /\ cl.status \in {"Success", "Empty", "ChannelClosed", "Timeout"}
        /\ (cl.status = "Success") = (views # <<>>)
        /\ (cl.status = "Success") = (read_index > cl.start_read)
        /\ cl.status = "Empty" => ~cl.started_dead
        /\ cl.status = "ChannelClosed" => ~producer_alive
        /\ cl.status = "Timeout" => (cl.timeout # "zero" /\ ~cl.started_dead)

\* C19 amended: the same for every max_count above 0; BatchPop(0, timeout)
\* returns Empty with nothing consumed whatever the producer's state.
C19_StatusOfBatchPop ==
    (ConsumerReturned /\ cl.op = "BatchPop") =>
        /\ cl.status \in {"Success", "Empty", "ChannelClosed", "Timeout"}
        /\ (cl.status = "Success") = (views # <<>>)
        /\ (cl.status = "Success") = (read_index > cl.start_read)
        /\ cl.max_count = 0 => cl.status = "Empty"
        /\ cl.max_count > 0 =>
              /\ cl.status = "Empty" => (~cl.started_dead /\ cl.timeout = "zero")
              /\ cl.status = "ChannelClosed" => ~producer_alive
              /\ cl.status = "Timeout" => (cl.timeout # "zero" /\ ~cl.started_dead)

\* BatchPop(0, timeout) has returned Empty after the producer's destruction.
C19_Witness ==
    /\ ConsumerReturned /\ cl.op = "BatchPop"
    /\ cl.max_count = 0 /\ cl.started_dead /\ cl.status = "Empty"

\* C20: BatchPop(max_count) returns at most max_count messages; read_index
\* has advanced by exactly the number returned, so the younger messages stay
\* pending; and the messages returned are, in order and in content, the
\* messages that were published at the places start_read, start_read + 1, ...
\* (the oldest pending ones).
C20_BatchPopReturnsOldest ==
    (ConsumerReturned /\ cl.op = "BatchPop") =>
        LET n == Len(views)
        IN /\ n <= cl.max_count
           /\ read_index = cl.start_read + n
           /\ Len(popped) >= n /\ Len(committed) >= cl.start_read + n
           /\ \A k \in 1..n :
                 popped[Len(popped) - n + k] = committed[cl.start_read + k]

\* ------------------------------------------------------------------------
\* Failed calls (C21)
\* ------------------------------------------------------------------------

PushCalls == {"TryPush", "BlockingPush"}

PushFailures == {"Timeout", "ChannelClosed", "InvalidSize", "QueueFull"}

PopFailures == {"Timeout", "ChannelClosed", "Empty"}

\* The places of a push call after its Reserve has succeeded.
PushReserved == {"push_copy", "push_commit", "commit_store", "commit_notify"}

\* C21: a call that does not succeed publishes and consumes nothing.  A
\* TryPush or BlockingPush writes a slot or stores write_index only after
\* its Reserve succeeded, and from there it can only return Success; so a
\* push that returns Timeout, ChannelClosed, InvalidSize or QueueFull has
\* write_index where it was when the call started and has written no slot.
\* A TryPop, BlockingPop or BatchPop that returns Timeout, ChannelClosed or
\* Empty has read_index where it was when the call started.
C21_FailedCallsChangeNothing ==
    [][/\ (pl' # pl /\ pl'.op \in PushCalls /\
             (write_index' # write_index \/ buffer' # buffer)) =>
             pl.pc \in PushReserved
       /\ (pl' # pl /\ pl.op \in PushCalls /\ pl.pc \in PushReserved) =>
             \/ pl'.pc \in PushReserved
             \/ pl'.pc = "returned" /\ pl'.status = "Success"
       /\ (pl' # pl /\ pl'.op \in PushCalls /\ pl'.pc = "returned" /\
             pl'.status \in PushFailures) =>
             /\ write_index' = pl'.start_write
             /\ UNCHANGED <<write_index, buffer, committed>>
       /\ (cl' # cl /\ cl'.pc = "returned" /\ cl'.status \in PopFailures) =>
             /\ read_index' = cl'.start_read
             /\ UNCHANGED <<read_index, popped>>]_vars

\* A BlockingPush has returned Timeout on a full queue: the pending message
\* is still there.
C21_Witness ==
    /\ ProducerReturned("BlockingPush") /\ pl.status = "Timeout"
    /\ write_index - read_index = capacity - 1
    /\ write_index = pl.start_write

\* ------------------------------------------------------------------------
\* The registry (C22-C25)
\* ------------------------------------------------------------------------

\* Thread t's broker call op returns in this step.
BrokerReturns(t, op) ==
    bt[t].pc # "returned" /\ bt'[t].pc = "returned" /\ bt'[t].op = op

\* Thread t has the result of its call op in hand.
BrokerReturned(t, op) == bt[t].pc = "returned" /\ bt[t].op = op

\* C22: RequestChannel returns Success only for a name that was not
\* registered, and the pair it returns is the newly registered queue; a call
\* that returns while its name is registered returns NameExists with no
\* channel and leaves the registry as it was; and the queue registered under
\* a name is never replaced by another (an entry changes only by being
\* erased), so that between two erasures of a name exactly one call succeeds.
C22_OneRequestSucceeds ==
    [][/\ \A t \in BrokerThreads :
            BrokerReturns(t, "RequestChannel") =>
                /\ bt'[t].result = "Success" =>
                      /\ ~Contains(bt'[t].name)
                      /\ bt'[t].pair # NoQueue
                      /\ channels_'[bt'[t].name] = bt'[t].pair
                      /\ \A n \in Names : channels_[n] # bt'[t].pair
                /\ Contains(bt'[t].name) =>
                      /\ bt'[t].result = "NameExists"
                      /\ bt'[t].pair = NoQueue
                      /\ channels_' = channels_
                /\ bt'[t].result = "NameExists" => Contains(bt'[t].name)
       /\ \A n \in Names :
            (Contains(n) /\ channels_'[n] # channels_[n]) => channels_'[n] = NoQueue]_vars

\* Two calls for the same name have returned: one Success, one NameExists.
C22_Witness ==
    \E t, u \in BrokerThreads :
        /\ BrokerReturned(t, "RequestChannel") /\ bt[t].result = "Success"
        /\ BrokerReturned(u, "RequestChannel") /\ bt[u].result = "NameExists"
        /\ bt[t].name = bt[u].name
        /\ channels_[bt[t].name] = bt[t].pair

\* C23: RemoveChannel returns true only for a registered channel whose two
\* handles have both been destroyed; while either handle exists it returns
\* false and leaves the registry as it was; for an unknown name it returns
\* false.
C23_RemoveOnlyAfterDestruction ==
    [][\A t \in BrokerThreads :
          BrokerReturns(t, "RemoveChannel") =>
              LET q == channels_[bt'[t].name] IN
              /\ bt'[t].result = "true" =>
                    /\ q # NoQueue
                    /\ ~ProducerHandleExists(q)
                    /\ ~ConsumerHandleExists(q)
              /\ (q # NoQueue /\ (ProducerHandleExists(q) \/ ConsumerHandleExists(q))) =>
                    /\ bt'[t].result = "false"
                    /\ channels_' = channels_
              /\ q = NoQueue => bt'[t].result = "false"]_vars

\* Both handles of the channel registered under name n have been destroyed.
BothHandlesDestroyed(n) ==
    /\ Contains(n)
    /\ ~ProducerHandleExists(channels_[n])
    /\ ~ConsumerHandleExists(channels_[n])

\* C24: once both handles of a channel have been destroyed the channel is
\* cleaned up without RemoveChannel: eventually its name is not registered
\* any more (HasChannel answers false and RequestChannel can succeed again).
C24_DestroyedChannelCleanedUp ==
    \A n \in Names : BothHandlesDestroyed(n) ~> ~Contains(n)

\* Both liveness flags of every registered channel are false.
AllFlagsCleared ==
    \A n \in Names :
        Contains(n) => ~ProducerAliveOf(channels_[n]) /\ ~ConsumerAliveOf(channels_[n])

\* C25: when Shutdown returns, both flags of every registered channel are
\* false and the registry is the one Shutdown found; no step of Shutdown
\* changes the registry, an index, a slot or the published and popped
\* messages; and Shutdown, once it has the lock, can always take its next
\* step (it waits for no endpoint).
C25_ShutdownClearsFlagsOnly ==
    [][\A t \in BrokerThreads :
          /\ BrokerReturns(t, "Shutdown") =>
                /\ AllFlagsCleared'
                /\ channels_' = bt[t].start_channels
          /\ (bt'[t] # bt[t] /\ bt'[t].op = "Shutdown") =>
                /\ UNCHANGED <<channels_, total_created_, total_destroyed_>>
                /\ UNCHANGED <<write_index, read_index, buffer, committed, popped>>
                /\ \A q \in LaterQueues :
                      /\ queues'[q].capacity = queues[q].capacity
                      /\ queues'[q].producer_handle = queues[q].producer_handle
                      /\ queues'[q].consumer_handle = queues[q].consumer_handle
          /\ (bt[t].op = "Shutdown" /\ bt[t].pc \notin {"idle", "returned"}) =>
                ENABLED ShutdownBody(t)]_vars

\* Shutdown has returned with two channels registered, a message pending on
\* channel "a" and all four handles still in existence.
C25_Witness ==
    /\ ShutdownReturned
    /\ \A n \in Names : Contains(n)
    /\ AllFlagsCleared
    /\ write_index - read_index > 0
    /\ \A n \in Names : ProducerHandleExists(channels_[n]) /\ ConsumerHandleExists(channels_[n])

\* ------------------------------------------------------------------------
\* After Shutdown (C26-C27)
\* ------------------------------------------------------------------------

\* C26: a push or pop that started after Shutdown had returned does not
\* succeed: TryPush and BlockingPush return an error status, BatchPush
\* returns 0, Reserve returns no reservation, Commit returns false, and
\* TryPop, BlockingPop and BatchPop return an error status (no message).
C26_NothingSucceedsAfterShutdown ==
    /\ (pl.pc = "returned" /\ pl.after_shutdown) =>
          /\ pl.status \notin {"Success", "reserved", "true"}
          /\ pl.op = "BatchPush" => pl.count = 0
    /\ (cl.pc = "returned" /\ cl.after_shutdown) =>
          /\ cl.status # "Success"
          /\ views = <<>>

\* C27: a BlockingPop and a BlockingPush that are in progress when Shutdown
\* has run return eventually, whatever the peer does or does not do.
C27_BlockedCallsReturnAfterShutdown ==
    /\ (ShutdownReturned /\ cl.op = "BlockingPop" /\ cl.pc \notin {"idle", "returned"})
          ~> (cl.pc \in {"idle", "returned"})
    /\ (ShutdownReturned /\ pl.op = "BlockingPush" /\ pl.pc \notin {"idle", "returned"})
          ~> (pl.pc \in {"idle", "returned"})

\* ------------------------------------------------------------------------
\* Configurations (C28-C29)
\* ------------------------------------------------------------------------

\* C28: for the configuration of every RequestChannel call, normalizing the
\* normalized configuration changes nothing, the normalized configuration is
\* valid, and the call does not return InvalidConfig.
C28_NormalizeIdempotentAndValid ==
    \A t \in BrokerThreads :
        bt[t].op = "RequestChannel" =>
            /\ bt[t].normalized = Normalize(bt[t].config)
            /\ Normalize(bt[t].normalized) = bt[t].normalized
            /\ IsValid(bt[t].normalized)
            /\ bt[t].result # "InvalidConfig"

\* A call with a configuration that is not valid as given has returned Success.
C28_Witness ==
    \E t \in BrokerThreads :
        /\ BrokerReturned(t, "RequestChannel") /\ bt[t].result = "Success"
        /\ ~IsValid(bt[t].config)
        /\ bt[t].config.capacity > CapacityMax
        /\ bt[t].config.max_message_size < MessageSizeMin

\* The smallest power of two that is at least v (v at most 2^MaxProbeBits).
CeilPowerOf2(v) ==
    CHOOSE p \in {2 ^ k : k \in 0..MaxProbeBits} :
        /\ p >= v
        /\ \A k \in 0..MaxProbeBits : 2 ^ k >= v => p <= 2 ^ k

\* C29: the channel a RequestChannel call created has the capacity
\* CeilPowerOf2(clamp(capacity, 8, 524288)) and the max_message_size
\* clamp(max_message_size, 64, 1048576) of the configuration asked for
\* (1000 -> 1024, 4 -> 8, 1000000 -> 524288), and Capacity, MaxMessageSize
\* and GetConfig of its endpoints report exactly these.
C29_EndpointsReportNormalized ==
    \A t \in BrokerThreads :
        (BrokerReturned(t, "RequestChannel") /\ bt[t].result = "Success") =>
            LET asked == bt[t].config
                q == bt[t].pair
                cap == CeilPowerOf2(IF asked.capacity < 8 THEN 8
                                    ELSE IF asked.capacity > 524288 THEN 524288
                                    ELSE asked.capacity)
                mms == IF asked.max_message_size < 64 THEN 64
                       ELSE IF asked.max_message_size > 1048576 THEN 1048576
                       ELSE asked.max_message_size
            IN  /\ Capacity(q) = cap
                /\ MaxMessageSize(q) = mms
                /\ GetConfig(q) = [capacity |-> cap, max_message_size |-> mms]
                /\ asked.capacity = 1000 => Capacity(q) = 1024
                /\ asked.capacity = 4 => Capacity(q) = 8
                /\ asked.capacity = 1000000 => Capacity(q) = 524288

\* The channel asked for with capacity 1000 and max_message_size 1 exists
\* and reports 1024 and 64.
C29_Witness ==
    \E t \in BrokerThreads :
        /\ BrokerReturned(t, "RequestChannel") /\ bt[t].result = "Success"
        /\ bt[t].config = [capacity |-> 1000, max_message_size |-> 1]
        /\ GetConfig(bt[t].pair) = [capacity |-> 1024, max_message_size |-> 64]

\* ------------------------------------------------------------------------
\* Moved-from handles (C30)
\* ------------------------------------------------------------------------

\* C30: a call on a moved-from handle returns its error (ChannelClosed, no
\* reservation, false) and does not fail; and once the moved-from object
\* has been destroyed the liveness flag of the endpoint that lives on in
\* the move target is still set.
C30_MovedFromHandleInactive ==
    /\ (pl.on_moved /\ pl.pc \in {"returned", "crashed"}) =>
          pl.status = InactiveResult(pl.op)
    /\ (cl.on_moved /\ cl.pc \in {"returned", "crashed"}) =>
          cl.status = InactiveResult(cl.op)
    /\ (moved.producer = "destroyed" /\ ProducerHandleExists(TheQueue)) => producer_alive
    /\ (moved.consumer = "destroyed" /\ ConsumerHandleExists(TheQueue)) => consumer_alive

\* ------------------------------------------------------------------------
\* Slots and indices (C31-C33)
\* ------------------------------------------------------------------------

\* The slot of index i holds the i-th published message (indices count from
\* 0): a valid length prefix and, under it, that message's bytes.
HoldsMessage(i) ==
    LET slot == buffer[GetSlotIndex(i, capacity)] IN
    /\ IsValidMessageSize(slot.size, max_message_size)
    /\ i + 1 <= Len(committed)
    /\ slot.size = Len(committed[i + 1])
    /\ \A k \in 1..Len(committed[i + 1]) : slot.payload[k] = committed[i + 1][k]

\* C31: in every reachable state every index i with read_index <= i <
\* write_index has, in slot i mod capacity, a length prefix in
\* 1..max_message_size and the complete payload of the i-th published
\* message.
C31_PendingSlotsHoldTheirMessages ==
    \A i \in read_index..(write_index - 1) : HoldsMessage(i)

\* C32: every write of the producer into the ring (a payload, a length
\* prefix) goes to slot write_index & (capacity - 1) as it is at that time,
\* and this is not the slot of a pending message; every read of the consumer
\* is of slot read_index & (capacity - 1).
C32_SlotsNeverShared ==
    [][/\ \A s \in Slots :
             buffer'[s] # buffer[s] =>
                 /\ s = GetSlotIndex(write_index, capacity)
                 /\ s \notin PendingSlots
       /\ (cl' # cl /\ cl.pc \in {"tp_read", "bat_read"}) => cl.read = read_index]_vars

\* The operations of the producer that publish.
Publishing == {"TryPush", "BlockingPush", "BatchPush", "Commit"}

\* C33: write_index changes only in a step of a publishing producer call
\* and read_index only in a step of a pop, each time by exactly +1; a step
\* of Reserve, of Rollback, of a destructor, of RemoveChannel or of Shutdown
\* changes neither, and a push or pop that returns a failure has its index
\* where it was when the call started.  A BatchPush that returns k has moved
\* write_index by k and a BatchPop that returns k messages has moved
\* read_index by k: one increment per message.
C33_IndicesOwnedAndMonotonic ==
    [][/\ write_index' # write_index =>
             /\ write_index' = write_index + 1
             /\ pl' # pl /\ pl.op \in Publishing
             /\ cl' = cl /\ bt' = bt
       /\ read_index' # read_index =>
             /\ read_index' = read_index + 1
             /\ cl' # cl /\ cl.op \in {"TryPop", "BlockingPop", "BatchPop"}
             /\ pl' = pl /\ bt' = bt
       /\ (pl' # pl /\ pl'.op \in {"Reserve", "Rollback", "~ProducerHandle"}) =>
             UNCHANGED <<write_index, read_index>>
       /\ (cl' # cl /\ cl'.op = "~ConsumerHandle") => UNCHANGED <<write_index, read_index>>
       /\ bt' # bt => UNCHANGED <<write_index, read_index>>
       /\ (pl'.pc = "returned" /\ pl'.op \in PushCalls /\ pl'.status \in PushFailures) =>
             write_index' = pl'.start_write
       /\ (cl'.pc = "returned" /\ cl'.status \in PopFailures) =>
             read_index' = cl'.start_read
       /\ (pl'.pc = "returned" /\ pl'.op = "BatchPush") =>
             write_index' = pl'.start_write + pl'.count
       /\ (cl'.pc = "returned" /\ cl'.op = "BatchPop") =>
             read_index' = cl'.start_read + Len(views')]_vars

\* A BatchPush has returned 2 with write_index two further than at its start,
\* a BatchPop has returned two messages with read_index two further than at
\* its start, and Shutdown has returned.
C33_Witness ==
    /\ ProducerReturned("BatchPush")
    /\ pl.count = 2
    /\ write_index = pl.start_write + 2
    /\ cl.pc = "returned" /\ cl.op = "BatchPop"
    /\ Len(views) = 2
    /\ read_index = cl.start_read + 2
    /\ ShutdownReturned

\* ------------------------------------------------------------------------
\* Blocking calls (C34-C36)
\* ------------------------------------------------------------------------

\* The consumer is inside a BlockingPop with infinite timeout.
InInfinitePop ==
    cl.op = "BlockingPop" /\ cl.timeout = "infinite" /\ cl.pc \notin {"idle", "returned"}

\* C34: a message that is pending while the consumer is inside an
\* infinite-timeout BlockingPop (published at whatever point of that call)
\* is eventually returned by the call: the consumer returns Success.
C34_NoLostWakeup ==
    (InInfinitePop /\ Pending > 0) ~> (cl.pc = "returned" /\ cl.status = "Success")

\* A call with a deadline that is in progress.
TimedPush == pl.op = "BlockingPush" /\ pl.pc \notin {"idle", "returned", "dead"}
TimedPop ==
    /\ cl.op \in {"BlockingPop", "BatchPop"}
    /\ cl.timeout # "infinite"
    /\ cl.pc \notin {"idle", "returned", "dead"}

\* C35: every BlockingPush, BlockingPop and BatchPop with a finite timeout
\* terminates.  Once the deadline of the call has passed the call returns,
\* whatever the peer does (push, pop, nothing at all, or be destroyed) and
\* also when the producer holds a reservation of its own; the call that
\* returns after its deadline returns Success, Timeout, ChannelClosed or
\* InvalidSize.
C35_TimedCallsTerminate ==
    /\ (TimedPush /\ pl.expired) ~> (pl.pc = "returned")
    /\ (TimedPop /\ cl.expired) ~> (cl.pc = "returned")
    /\ [][/\ (TimedPush /\ pl.expired /\ pl'.pc = "returned") =>
                pl'.status \in {"Success", "Timeout", "ChannelClosed", "InvalidSize"}
          /\ (TimedPop /\ cl.expired /\ cl'.pc = "returned") =>
                cl'.status \in {"Success", "Timeout", "ChannelClosed"}]_vars

\* A BlockingPush behind the caller's own reservation has timed out, and a
\* BatchPop with a timeout has timed out on the empty queue.
C35_Witness ==
    /\ ProducerReturned("BlockingPush")
    /\ pl.status = "Timeout"
    /\ reserved_slot_ # nullopt
    /\ staged = FreshResult
    /\ cl.pc = "returned"
    /\ cl.op = "BatchPop"
    /\ cl.status = "Timeout"

\* BlockingPush has found the queue full (its Reserve failed) and waits.
PushWaits == pl.op = "BlockingPush" /\ pl.pc \in {"bp_timeout", "bp_spin"}

\* BlockingPop with a finite timeout has found the queue empty (its TryPop
\* failed) and waits.
PopWaits == cl.op = "BlockingPop" /\ cl.pc \in {"bpf_timeout", "bpf_spin"}

\* The stamps of the delivered messages increase: no message is delivered
\* before one pushed earlier.
DeliveredInPushOrder ==
    \A i, j \in 1..Len(popped) : i < j => popped[i][1] < popped[j][1]

\* C36: when the consumer has made room before the deadline of a BlockingPush
\* that found the queue full, that call (the one of message id) returns
\* Success unless the consumer is destroyed; when the producer has pushed
\* before the deadline of a finite-timeout BlockingPop that found the queue
\* empty, that call (the k+1-st delivery) returns Success with the message;
\* and messages are delivered in the order of their pushes.
C36_WaitersSucceedInTime ==
    /\ \A id \in 1..MaxMessages :
          (/\ PushWaits /\ next_id = id + 1
           /\ ~pl.expired
           /\ ~IsQueueFull(write_index, read_index, capacity))
             ~> \/ /\ ProducerReturned("BlockingPush") /\ next_id = id + 1
                   /\ pl.status = "Success"
                \/ ~consumer_alive
    /\ \A k \in 0..(MaxMessages - 1) :
          (PopWaits /\ Len(popped) = k /\ ~cl.expired /\ Pending > 0)
             ~> /\ cl.pc = "returned" /\ cl.op = "BlockingPop"
                /\ cl.status = "Success"
                /\ Len(popped) = k + 1
    /\ []DeliveredInPushOrder

\* ------------------------------------------------------------------------
\* Error accounting (C37-C38)
\* ------------------------------------------------------------------------

\* C37: a TryPush or BlockingPush that returns Timeout, ChannelClosed,
\* InvalidSize or QueueFull has added exactly one to failed_pushes and
\* nothing to messages_sent and bytes_sent; one that returns Success has
\* added one to messages_sent and the message length to bytes_sent and
\* nothing to failed_pushes.  The counters move in the returning step only.
C37_PushOutcomesCounted ==
    [][(pl' # pl /\ pl'.op \in PushCalls) =>
          IF pl'.pc = "returned" /\ pl.pc # "returned"
          THEN IF pl'.status = "Success"
               THEN /\ failed_pushes_' = failed_pushes_
                    /\ messages_sent_' = messages_sent_ + 1
                    /\ bytes_sent_' = bytes_sent_ + Len(pl.data)
               ELSE /\ pl'.status \in PushFailures
                    /\ failed_pushes_' = failed_pushes_ + 1
                    /\ messages_sent_' = messages_sent_
                    /\ bytes_sent_' = bytes_sent_
          ELSE /\ failed_pushes_' = failed_pushes_
               /\ messages_sent_' = messages_sent_
               /\ bytes_sent_' = bytes_sent_]_vars

RequestErrors == {"NameExists", "InvalidConfig", "AllocationFailed"}

\* C38: a RequestChannel that returns NameExists, InvalidConfig or
\* AllocationFailed leaves the registry as it was: channels_ is unchanged
\* and GetStats reports the same active_channels and total_channels_created;
\* a RequestChannel that returns Success has added exactly one entry, under
\* its name, and one to each of the two figures.
C38_FailedRequestRegistersNothing ==
    [][\A t \in BrokerThreads :
          BrokerReturns(t, "RequestChannel") =>
              IF bt'[t].result = "Success"
              THEN /\ ~Contains(bt'[t].name)
                   /\ channels_' = [channels_ EXCEPT ![bt'[t].name] = bt'[t].pair]
                   /\ bt'[t].pair # NoQueue
                   /\ GetStats'.active_channels = GetStats.active_channels + 1
                   /\ GetStats'.total_channels_created = GetStats.total_channels_created + 1
              ELSE /\ bt'[t].result \in RequestErrors
                   /\ channels_' = channels_
                   /\ GetStats' = GetStats]_vars

\* ------------------------------------------------------------------------
\* End of an endpoint (C39)
\* ------------------------------------------------------------------------

\* C39: once an endpoint of the channel has ceased to exist, by destruction
\* or by its handle being assigned over, its liveness flag is cleared (the
\* peer's calls then see ChannelClosed, and RemoveChannel finds both flags
\* false once both endpoints are gone).
C39_GoneEndpointsAreClosed ==
    /\ ~ProducerHandleExists(TheQueue) => ~producer_alive
    /\ ~ConsumerHandleExists(TheQueue) => ~consumer_alive

====
